---- MODULE Spec2Model ----
(***************************************************************************)
(* A model of the LLVM -> AR function importer                            *)
(* (frontend/llvm/src/import/function.cpp): FunctionImporter and          *)
(* BasicBlockTranslation.                                                  *)
(*                                                                         *)
(* LIR (the LLVM function) is the read-only input, drawn in Init from     *)
(* bounded families of functions.  AIR (the ar::Code being built) is the  *)
(* state: the basic blocks in creation order with their statements and    *)
(* successor lists, the entry/exit/unreachable/ehresume slots, the        *)
(* value -> variable map, the block -> BasicBlockTranslation map.         *)
(***************************************************************************)
EXTENDS Integers, Sequences, FiniteSets, TLC

VARIABLES
  fn,         \* the LLVM function being imported (read-only)
  addrFlip,   \* which way the allocator ordered the ar::Type objects
  pc,         \* position of translate_body
  err,        \* message of the exception raised ("" when none)
  special,    \* _llvm_return_bb, _llvm_unreachable_bb, _llvm_ehresume_bb
  bbs,        \* ar::Code: basic blocks in creation order
  slots,      \* ar::Code: entry/exit/unreachable/ehresume block
  variables,  \* _variables: llvm::Value -> ar::Variable
  nvars,      \* number of ar::InternalVariable/LocalVariable created
  blocks,     \* _blocks: llvm::BasicBlock -> BasicBlockTranslation
  worklist,   \* the deque of translate_basic_blocks
  cur,        \* the BasicBlockTranslation under construction
  idx,        \* index of the next instruction of the current block
  todo,       \* remaining blocks of the phi pass / of the link pass
  exc,        \* how translate_body ended early ("none" while it runs)
  last        \* the last translate_instruction: its input and the state before

vars == <<fn, addrFlip, pc, err, special, bbs, slots, variables, nvars,
          blocks, worklist, cur, idx, todo, exc, last>>

-----------------------------------------------------------------------------
(* Generic helpers *)

Put(f, k, v) == [x \in (DOMAIN f) \cup {k} |-> IF x = k THEN v ELSE f[x]]

Last(s) == s[Len(s)]

Front(s) == SubSeq(s, 1, Len(s) - 1)

RECURSIVE Flatten(_)
Flatten(ss) == IF ss = <<>> THEN <<>> ELSE Head(ss) \o Flatten(Tail(ss))

RECURSIVE Reverse(_)
Reverse(s) == IF s = <<>> THEN <<>> ELSE Reverse(Tail(s)) \o <<Head(s)>>

Range(s) == {s[i] : i \in DOMAIN s}

-----------------------------------------------------------------------------
(* ar::Type.  Types are uniqued objects compared by pointer in the code;  *)
(* here they are compared structurally, and their addresses are a separate *)
(* total order (Address).                                                  *)

Signed == "S"

Unsigned == "U"

VoidT == [k |-> "void"]

IntT(w, s) == [k |-> "int", w |-> w, s |-> s]

FloatT(w) == [k |-> "float", w |-> w]

PtrT(t) == [k |-> "ptr", to |-> t]

FunT(ret, params) == [k |-> "fun", ret |-> ret, params |-> params]

is_pointer(t) == t.k = "ptr"

is_integer(t) == t.k = "int"

(* llvm::Type *)
LInt(w) == [k |-> "int", w |-> w]

LFloat(w) == [k |-> "float", w |-> w]

LPtr(t) == [k |-> "ptr", to |-> t]

LVoid == [k |-> "void"]

LFun(ret, params) == [k |-> "fun", ret |-> ret, params |-> params]

(* TypeImporter::translate_type(type, preferred signedness) *)
RECURSIVE translate_type(_, _)
translate_type(lt, sign) ==
  CASE lt.k = "int" -> IntT(lt.w, sign)
    [] lt.k = "float" -> FloatT(lt.w)
    [] lt.k = "ptr" -> PtrT(translate_type(lt.to, sign))
    [] lt.k = "fun" ->
         FunT(translate_type(lt.ret, sign),
              [i \in DOMAIN lt.params |-> translate_type(lt.params[i], sign)])
    [] OTHER -> VoidT

(* A canonical numbering of the types, and the two allocation orders the   *)
(* model distinguishes: the types allocated at increasing or at decreasing *)
(* addresses.                                                              *)
RECURSIVE TypeRank(_)
TypeRank(t) ==
  CASE t.k = "int" -> 2 * t.w + (IF t.s = Signed THEN 0 ELSE 1)
    [] t.k = "float" -> 200 + t.w
    [] t.k = "ptr" -> 1000 + TypeRank(t.to)
    [] OTHER -> 5000

Address(t, flip) == IF flip THEN 0 - TypeRank(t) ELSE TypeRank(t)

-----------------------------------------------------------------------------
(* LIR: operands, instructions, functions *)

NullT == [k |-> "null"]

Arg(n, ty) == [k |-> "arg", n |-> n, ty |-> ty, val |-> 0]

Ins(n, ty) == [k |-> "inst", n |-> n, ty |-> ty, val |-> 0]

Cst(v, ty) == [k |-> "cst", n |-> "cst", ty |-> ty, val |-> v]

FunRef(n, ty) == [k |-> "fun", n |-> n, ty |-> ty, val |-> 0]

Instr(op, res, ty, args, opc, nsw, nuw, succs) ==
  [op |-> op, res |-> res, ty |-> ty, args |-> args,
   attr |-> [opc |-> opc, nsw |-> nsw, nuw |-> nuw], succs |-> succs]

NoRes == "-"

IsTerminator(inst) ==
  inst.op \in {"br", "condbr", "ret", "unreachable", "resume", "invoke"}

Terminator(f, b) == Last(f.blocks[b])

(* fault injection: only the first successor of the terminator *)
FirstSuccessorOnly(f, b) ==
  IF Terminator(f, b).succs = <<>> THEN <<>>
  ELSE <<Terminator(f, b).succs[1]>>

(* succ_begin(bb) .. succ_end(bb): the terminator's successors, in order *)
Successors(f, b) ==
  LET t == Terminator(f, b)
  IN IF t.op \in {"br", "condbr", "invoke"} THEN t.succs ELSE <<>>

LBlocks(f) == DOMAIN f.blocks

(* every (block, index, operand number) at which value n is an operand, in *)
(* program order                                                           *)
RECURSIVE UsesInInst(_, _, _, _, _)
UsesInInst(f, n, b, i, no) ==
  LET inst == f.blocks[b][i]
  IN IF no > Len(inst.args) THEN <<>>
     ELSE (IF inst.args[no].k \in {"inst", "arg"} /\ inst.args[no].n = n
           THEN <<[b |-> b, i |-> i, no |-> no]>> ELSE <<>>)
          \o UsesInInst(f, n, b, i, no + 1)

RECURSIVE UsesInBlock(_, _, _, _)
UsesInBlock(f, n, b, i) ==
  IF i > Len(f.blocks[b]) THEN <<>>
  ELSE UsesInInst(f, n, b, i, 1) \o UsesInBlock(f, n, b, i + 1)

RECURSIVE UsesFrom(_, _, _)
UsesFrom(f, n, b) ==
  IF b > Len(f.blocks) THEN <<>>
  ELSE UsesInBlock(f, n, b, 1) \o UsesFrom(f, n, b + 1)

(* value->use_begin() .. use_end(): LLVM pushes each new use at the head   *)
(* of the use list, so the uses of a value built in program order iterate  *)
(* last use first.                                                         *)
UseList(f, n) == Reverse(UsesFrom(f, n, 1))

(* llvm::Value::hasOneUse() && *user_begin() == br *)
OnlyUsedBy(f, n, b, i) ==
  LET us == UseList(f, n)
  IN Len(us) = 1 /\ us[1].b = b /\ us[1].i = i

-----------------------------------------------------------------------------
(* AIR: values, statements, basic blocks *)

Var(id, ty) == [vk |-> "var", id |-> id, ty |-> ty]

Const(v, ty) == [vk |-> "cst", id |-> v, ty |-> ty]

NoVar == [vk |-> "none", id |-> 0, ty |-> NullT]

(* ar::Statement: kind, result, operands, operator/predicate and flags,   *)
(* frontend (the LLVM value it comes from)                                 *)
Stmt(k, res, ops, info, fe) ==
  [k |-> k, res |-> res, ops |-> ops, info |-> info, fe |-> fe]

EmptyBlock == [stmts |-> <<>>, succs |-> <<>>]

(* ar::BasicBlock::create(code): the new block is the last of the code *)
create_block(B) == Append(B, EmptyBlock)

(* ar::BasicBlock::push_back *)
push_back(B, b, s) == [B EXCEPT ![b].stmts = Append(@, s)]

(* ar::BasicBlock::pop_back *)
pop_back(B, b) == [B EXCEPT ![b].stmts = Front(@)]

(* ar::BasicBlock::add_successor: the successors are a set kept in        *)
(* insertion order                                                         *)
add_successor(B, b, d) ==
  IF d \in Range(B[b].succs) THEN B
  ELSE [B EXCEPT ![b].succs = Append(@, d)]

-----------------------------------------------------------------------------
(* The translation context threaded through the handlers: the code's       *)
(* blocks, the BasicBlockTranslation being filled, _variables, the number  *)
(* of variables created, the exception in flight and the value returned.   *)

Ctx(B, bt, vs, nv, flip) ==
  [bbs |-> B, bt |-> bt, vars |-> vs, nv |-> nv, flip |-> flip,
   ex |-> "none", msg |-> "", ret |-> NoVar]

Ok(T) == T.ex = "none"

(* throw ImportError(msg) *)
Throw(T, m) == IF Ok(T) THEN [T EXCEPT !.ex = "ImportError", !.msg = m] ELSE T

(* a failed ikos_assert / ikos_unreachable / ar::cast *)
Abort(T, m) == IF Ok(T) THEN [T EXCEPT !.ex = "assert", !.msg = m] ELSE T

Ret(T, v) == [T EXCEPT !.ret = v]

(* run F on T unless an exception is in flight *)
Bind(T, F(_)) == IF Ok(T) THEN F(T) ELSE T

NoInfo == [op |-> "", nw |-> FALSE, ex |-> FALSE, nd |-> 0, ed |-> 0]

OpInfo(op) == [NoInfo EXCEPT !.op = op]

-----------------------------------------------------------------------------
(* BasicBlockTranslation *)

Out(b, s) == [block |-> b, succ |-> s]

(* BasicBlockTranslation::BasicBlockTranslation(source, main) *)
NewTranslation(source, main) ==
  [source |-> source, main |-> main, outputs |-> <<Out(main, 0)>>,
   internals |-> <<>>, inputs |-> <<>>]

NoTranslation == NewTranslation(0, 0)

OutputBlocks(bt) == [i \in DOMAIN bt.outputs |-> bt.outputs[i].block]

RECURSIVE AddEdgesTo(_, _, _)
AddEdgesTo(B, srcs, d) ==
  IF srcs = <<>> THEN B
  ELSE AddEdgesTo(add_successor(B, Head(srcs), d), Tail(srcs), d)

(* fault injection: merge_outputs that leaves the prior outputs out of the *)
(* internals                                                                *)
MergeForgettingOutputs(T) ==
  IF Len(T.bt.outputs) < 2 THEN T
  ELSE [T EXCEPT
          !.bbs = AddEdgesTo(create_block(T.bbs), OutputBlocks(T.bt),
                             Len(T.bbs) + 1),
          !.bt.outputs = <<Out(Len(T.bbs) + 1, 0)>>]

(* BasicBlockTranslation::merge_outputs *)
merge_outputs(T) ==
  LET outs == T.bt.outputs
      dest == Len(T.bbs) + 1
  IN IF Len(outs) < 2 THEN T
     ELSE IF \E i \in DOMAIN outs : outs[i].succ # 0
     THEN Abort(T, "merge_outputs: it->succ == nullptr")
     ELSE [T EXCEPT
             !.bbs = AddEdgesTo(create_block(T.bbs), OutputBlocks(T.bt), dest),
             !.bt.internals = @ \o OutputBlocks(T.bt),
             !.bt.outputs = <<Out(dest, 0)>>]

(* fault injection: the statement goes to the first output only *)
PushIntoFirst(B, dests, s) ==
  IF dests = <<>> THEN B ELSE push_back(B, Head(dests), s)

RECURSIVE PushInto(_, _, _)
PushInto(B, dests, s) ==
  IF dests = <<>> THEN B
  ELSE PushInto(push_back(B, Head(dests), s), Tail(dests), s)

(* fault injection: the statement is appended to the internal blocks as    *)
(* well as to the outputs                                                   *)
AddStatementToInternals(T, s) ==
  IF ~Ok(T) THEN T
  ELSE [T EXCEPT !.bbs = PushInto(T.bbs, T.bt.internals \o OutputBlocks(T.bt), s)]

(* BasicBlockTranslation::add_statement: the statement itself goes to the  *)
(* only output, a clone of it to each of several outputs                   *)
add_statement(T, s) ==
  IF ~Ok(T) THEN T
  ELSE [T EXCEPT !.bbs = PushInto(T.bbs, OutputBlocks(T.bt), s)]

(* ar::Comparison::inverse(): the comparison with the negated predicate *)
InversePredicate(p) ==
  CASE p = "SIEQ" -> "SINE" [] p = "SINE" -> "SIEQ"
    [] p = "SIGT" -> "SILE" [] p = "SILE" -> "SIGT"
    [] p = "SIGE" -> "SILT" [] p = "SILT" -> "SIGE"
    [] p = "UIEQ" -> "UINE" [] p = "UINE" -> "UIEQ"
    [] p = "UIGT" -> "UILE" [] p = "UILE" -> "UIGT"
    [] p = "UIGE" -> "UILT" [] p = "UILT" -> "UIGE"
    [] p = "PEQ" -> "PNE" [] p = "PNE" -> "PEQ"
    [] p = "PGT" -> "PLE" [] p = "PLE" -> "PGT"
    [] p = "PGE" -> "PLT" [] p = "PLT" -> "PGE"
    [] p = "FOEQ" -> "FUNE" [] p = "FUNE" -> "FOEQ"
    [] p = "FOGT" -> "FULE" [] p = "FULE" -> "FOGT"
    [] OTHER -> "?"

inverse(cmp) == [cmp EXCEPT !.info.op = InversePredicate(@)]

IsBool(v) == v.ty.k = "int" /\ v.ty.w = 1

(* create_bool_assignment(ctx, var, value), with the frontend set *)
create_bool_assignment(var, value, fe) ==
  Stmt("assign", var, <<Const(IF value THEN 1 ELSE 0, var.ty)>>, NoInfo, fe)

(* fault injection: add_comparison_output_bb without the assignment of the *)
(* boolean constant to the result variable                                  *)
ComparisonOutputWithoutAssignment(T, src, cmp, var, value) ==
  LET dest == Len(T.bbs) + 1
      B1 == push_back(create_block(T.bbs), dest, cmp)
  IN [T EXCEPT !.bbs = add_successor(B1, src, dest),
               !.bt.outputs = Append(@, Out(dest, 0))]

(* BasicBlockTranslation::add_comparison_output_bb *)
add_comparison_output_bb(T, src, cmp, var, value) ==
  LET dest == Len(T.bbs) + 1
      B1 == push_back(create_block(T.bbs), dest, cmp)
      B2 == push_back(B1, dest, create_bool_assignment(var, value, cmp.fe))
  IN IF ~IsBool(var) THEN Abort(T, "invalid bit-width for boolean")
     ELSE [T EXCEPT !.bbs = add_successor(B2, src, dest),
                    !.bt.outputs = Append(@, Out(dest, 0))]

RECURSIVE ComparisonFanOut(_, _, _, _)
ComparisonFanOut(T, prev, var, cmp) ==
  IF prev = <<>> \/ ~Ok(T) THEN T
  ELSE LET bb == Head(prev).block
           T1 == [T EXCEPT !.bt.internals = Append(@, bb)]
           T2 == add_comparison_output_bb(T1, bb, cmp, var, TRUE)
           T3 == Bind(T2, LAMBDA t :
                   add_comparison_output_bb(t, bb, inverse(cmp), var, FALSE))
       IN ComparisonFanOut(T3, Tail(prev), var, cmp)

(* fault injection: add_comparison that leaves the prior outputs in the    *)
(* outputs                                                                  *)
AddComparisonKeepingOutputs(T, var, cmp) ==
  IF ~Ok(T) THEN T ELSE ComparisonFanOut(T, T.bt.outputs, var, cmp)

(* BasicBlockTranslation::add_comparison *)
add_comparison(T, var, cmp) ==
  IF ~Ok(T) THEN T
  ELSE ComparisonFanOut([T EXCEPT !.bt.outputs = <<>>], T.bt.outputs, var, cmp)

(* BasicBlockTranslation::add_unconditional_branching *)
add_unconditional_branching(T, succ) ==
  [T EXCEPT !.bt.outputs = [i \in DOMAIN @ |-> Out(@[i].block, succ)]]

(* create_bool_cmp(ctx, var, value) *)
create_bool_cmp(var, value, fe) ==
  Stmt("cmp", NoVar, <<var, Const(IF value THEN 1 ELSE 0, var.ty)>>,
       OpInfo(IF var.ty.s = Signed THEN "SIEQ" ELSE "UIEQ"), fe)

(* fault injection: the child of a conditional branch created without its *)
(* comparison                                                               *)
ConditionalOutputWithoutComparison(T, remove_assign, src, llvm_dest, cond, value, fe) ==
  [T EXCEPT !.bbs = add_successor(create_block(T.bbs), src, Len(T.bbs) + 1),
            !.bt.outputs = Append(@, Out(Len(T.bbs) + 1, llvm_dest))]

(* BasicBlockTranslation::add_conditional_output_bb *)
add_conditional_output_bb(T, remove_assign, src, llvm_dest, cond, value, fe) ==
  LET ar_dest == Len(T.bbs) + 1
      B1 == create_block(T.bbs)
      B2 == IF remove_assign THEN B1
            ELSE push_back(B1, ar_dest, create_bool_cmp(cond, value, fe))
  IN IF ~remove_assign /\ ~IsBool(cond)
     THEN Abort(T, "invalid bit-width for boolean")
     ELSE [T EXCEPT !.bbs = add_successor(B2, src, ar_dest),
                    !.bt.outputs = Append(@, Out(ar_dest, llvm_dest))]

(* the has_assign_preds test of add_conditional_branching, on one output *)
EndsWithConstantAssignment(B, b, cond) ==
  /\ B[b].stmts # <<>>
  /\ Last(B[b].stmts).k = "assign"
  /\ Last(B[b].stmts).res = cond
  /\ Last(B[b].stmts).ops[1].vk = "cst"
  /\ is_integer(Last(B[b].stmts).ops[1].ty)

has_assign_preds(T, cond) ==
  \A i \in DOMAIN T.bt.outputs :
     EndsWithConstantAssignment(T.bbs, T.bt.outputs[i].block, cond)

(* fault injection: the fused case removing the assignment whatever the   *)
(* uses of the condition                                                    *)
RECURSIVE FusedBranchingDroppingAssignment(_, _, _, _, _)
FusedBranchingDroppingAssignment(T, i, true_succ, false_succ, remove_assign) ==
  IF i > Len(T.bt.outputs) THEN T
  ELSE LET bb == T.bt.outputs[i].block
           cst == Last(T.bbs[bb].stmts).ops[1]
           T1 == [T EXCEPT !.bt.outputs[i].succ =
                              IF cst.id = 0 THEN false_succ ELSE true_succ,
                           !.bbs = pop_back(@, bb)]
       IN FusedBranchingDroppingAssignment(T1, i + 1, true_succ, false_succ,
                                           remove_assign)

RECURSIVE FusedBranching(_, _, _, _, _)
FusedBranching(T, i, true_succ, false_succ, remove_assign) ==
  IF i > Len(T.bt.outputs) THEN T
  ELSE LET bb == T.bt.outputs[i].block
           cst == Last(T.bbs[bb].stmts).ops[1]
           T1 == [T EXCEPT !.bt.outputs[i].succ =
                              IF cst.id = 0 THEN false_succ ELSE true_succ,
                           !.bbs = IF remove_assign THEN pop_back(@, bb) ELSE @]
       IN FusedBranching(T1, i + 1, true_succ, false_succ, remove_assign)

RECURSIVE ConditionalFanOut(_, _, _, _, _, _, _)
ConditionalFanOut(T, prev, true_succ, false_succ, remove_assign, cond, fe) ==
  IF prev = <<>> \/ ~Ok(T) THEN T
  ELSE LET bb == Head(prev).block
           T1 == [T EXCEPT !.bt.internals = Append(@, bb)]
           T2 == add_conditional_output_bb(T1, remove_assign, bb, true_succ,
                                           cond, TRUE, fe)
           T3 == Bind(T2, LAMBDA t :
                   add_conditional_output_bb(t, remove_assign, bb, false_succ,
                                             cond, FALSE, fe))
       IN ConditionalFanOut(T3, Tail(prev), true_succ, false_succ,
                            remove_assign, cond, fe)

(* fault injection: add_conditional_branching that never takes the fused   *)
(* case                                                                     *)
NeverFusedBranching(T, true_succ, false_succ, remove_assign, cond, fe) ==
  IF ~Ok(T) THEN T
  ELSE ConditionalFanOut([T EXCEPT !.bt.outputs = <<>>], T.bt.outputs,
                         true_succ, false_succ, FALSE, cond, fe)

(* fault injection: the branch joins the open outputs before it fans out   *)
BranchingAfterJoin(T, true_succ, false_succ, remove_assign, cond, fe) ==
  IF ~Ok(T) THEN T
  ELSE ConditionalFanOut([merge_outputs(T) EXCEPT !.bt.outputs = <<>>],
                         merge_outputs(T).bt.outputs,
                         true_succ, false_succ, FALSE, cond, fe)

(* BasicBlockTranslation::add_conditional_branching(br, cond);             *)
(* remove_assign: the LLVM condition has the branch as its only use        *)
add_conditional_branching(T, true_succ, false_succ, remove_assign, cond, fe) ==
  IF ~Ok(T) THEN T
  ELSE IF has_assign_preds(T, cond)
  THEN FusedBranching(T, 1, true_succ, false_succ, remove_assign)
  ELSE ConditionalFanOut([T EXCEPT !.bt.outputs = <<>>], T.bt.outputs,
                         true_succ, false_succ, remove_assign, cond, fe)

(* fault injection: the two children created without patching the         *)
(* destinations of the Invoke                                               *)
InvokeOutputsNotPatched(T, src, normal_dest, exception_dest) ==
  LET n == Len(T.bbs) + 1
      e == Len(T.bbs) + 2
      B1 == create_block(create_block(T.bbs))
  IN [T EXCEPT
        !.bbs = add_successor(add_successor(B1, src, n), src, e),
        !.bt.outputs = @ \o <<Out(n, normal_dest), Out(e, exception_dest)>>]

(* add_invoke_normal_output_bb then add_invoke_exception_output_bb on the  *)
(* Invoke that ends src                                                    *)
add_invoke_output_bbs(T, src, normal_dest, exception_dest) ==
  LET n == Len(T.bbs) + 1
      e == Len(T.bbs) + 2
      B1 == create_block(create_block(T.bbs))
      B2 == add_successor(add_successor(B1, src, n), src, e)
      k == Len(B2[src].stmts)
  IN IF T.bbs[src].stmts = <<>> \/ Last(T.bbs[src].stmts).k # "invoke"
     THEN Abort(T, "ar::cast< ar::Invoke >(bb->back())")
     ELSE [T EXCEPT
             !.bbs = [B2 EXCEPT ![src].stmts[k].info.nd = n,
                                ![src].stmts[k].info.ed = e],
             !.bt.outputs = @ \o <<Out(n, normal_dest), Out(e, exception_dest)>>]

RECURSIVE InvokeFanOut(_, _, _, _)
InvokeFanOut(T, prev, normal_dest, exception_dest) ==
  IF prev = <<>> \/ ~Ok(T) THEN T
  ELSE LET bb == Head(prev).block
           T1 == [T EXCEPT !.bt.internals = Append(@, bb)]
       IN InvokeFanOut(add_invoke_output_bbs(T1, bb, normal_dest, exception_dest),
                       Tail(prev), normal_dest, exception_dest)

(* BasicBlockTranslation::add_invoke_branching *)
add_invoke_branching(T, normal_dest, exception_dest) ==
  IF ~Ok(T) THEN T
  ELSE InvokeFanOut([T EXCEPT !.bt.outputs = <<>>], T.bt.outputs,
                    normal_dest, exception_dest)

(* fault injection: input_basic_block that creates a block at every call  *)
InputBlockAlwaysCreated(T, llvm_bb) ==
  [T EXCEPT !.bbs = add_successor(create_block(T.bbs), Len(T.bbs) + 1, T.bt.main),
            !.bt.inputs = Put(@, llvm_bb, Len(T.bbs) + 1),
            !.ret = Len(T.bbs) + 1]

(* BasicBlockTranslation::input_basic_block(llvm_bb); the block is T.ret *)
input_basic_block(T, llvm_bb) ==
  IF llvm_bb \in DOMAIN T.bt.inputs
  THEN Ret(T, T.bt.inputs[llvm_bb])
  ELSE LET ar_bb == Len(T.bbs) + 1
       IN [T EXCEPT !.bbs = add_successor(create_block(T.bbs), ar_bb, T.bt.main),
                    !.bt.inputs = Put(@, llvm_bb, ar_bb),
                    !.ret = ar_bb]

-----------------------------------------------------------------------------
(* Type and sign inference *)

(* FunctionImporter::TypeHint: ignore, or (type, score); ex carries the    *)
(* ImportError raised while computing it                                   *)
TypeHint(ty, score) == [ig |-> FALSE, ty |-> ty, score |-> score, ex |-> ""]

NoHint == [ig |-> TRUE, ty |-> NullT, score |-> 0, ex |-> ""]

HintError(m) == [ig |-> TRUE, ty |-> NullT, score |-> 0, ex |-> m]

(* fault injection: unsigned when both nsw and nuw are set *)
SignFromWrapsUnsignedOnBoth(attr) ==
  IF attr.nsw /\ ~attr.nuw THEN Signed ELSE Unsigned

(* sign_from_wraps *)
sign_from_wraps(attr) ==
  IF attr.nuw /\ ~attr.nsw THEN Unsigned
  ELSE IF attr.nsw /\ ~attr.nuw THEN Signed
  ELSE IF attr.nsw /\ attr.nuw THEN Signed
  ELSE Unsigned

(* infer_type_hint_operand and its four cases *)
infer_type_hint_operand(T, f, v) ==
  CASE v.k = "fun" ->
         TypeHint(PtrT(f.callees[v.n].type),
                  IF f.callees[v.n].dbg THEN 1000 ELSE 10)
    [] v.k = "inst" ->
         IF v.n \in DOMAIN T.vars THEN TypeHint(T.vars[v.n].ty, 2) ELSE NoHint
    [] v.k = "arg" ->
         TypeHint(T.vars[v.n].ty, IF f.dbg THEN 1000 ELSE 10)
    [] v.k = "cst" -> NoHint
    [] OTHER -> HintError("unexpected llvm::Value in infer_type_hint_operand()")

(* infer_type_hint_use_store *)
infer_type_hint_use_store(T, f, user, no) ==
  LET hint == infer_type_hint_operand(T, f, user.args[3 - no])
  IN IF hint.ig THEN hint
     ELSE IF no = 1 THEN [hint EXCEPT !.ty = @.to]
     ELSE [hint EXCEPT !.ty = PtrT(@)]

(* infer_type_hint_use_load *)
infer_type_hint_use_load(T, f, user) ==
  LET hint == infer_type_hint_operand(T, f, Ins(user.res, user.ty))
  IN IF hint.ig THEN hint ELSE [hint EXCEPT !.ty = PtrT(@)]

(* infer_type_hint_use_call_helper; operand number no counts from 1, the   *)
(* called value is the last operand                                        *)
infer_type_hint_use_call_helper(T, f, user, no) ==
  LET called == Last(user.args)
      nargs == Len(user.args) - 1
  IN IF no > nargs THEN NoHint
     ELSE IF called.k # "fun" THEN NoHint
     ELSE LET ar_fun == f.callees[called.n]
          IN IF ar_fun.ignored THEN NoHint
             ELSE IF ar_fun.vararg /\ no > Len(ar_fun.type.params) THEN NoHint
             ELSE TypeHint(ar_fun.type.params[no],
                           IF ar_fun.dbg THEN 1000 ELSE 10)

(* infer_type_hint_use_cast *)
infer_type_hint_use_cast(user) ==
  LET opc == user.attr.opc
      src == user.args[1].ty
  IN CASE opc \in {"zext", "uitofp", "inttoptr"} ->
            TypeHint(translate_type(src, Unsigned), 5)
       [] opc \in {"sext", "sitofp"} -> TypeHint(translate_type(src, Signed), 5)
       [] opc \in {"trunc", "fptoui", "fptosi", "fptrunc", "fpext",
                   "ptrtoint", "bitcast"} -> NoHint
       [] OTHER -> HintError("unexpected llvm::CastInst")

(* infer_type_hint_use_binary_operator *)
infer_type_hint_use_binary_operator(user, no) ==
  LET opc == user.attr.opc
      ty == user.args[no].ty
  IN CASE opc \in {"add", "sub", "mul"} ->
            TypeHint(translate_type(ty, sign_from_wraps(user.attr)), 5)
       [] opc \in {"udiv", "urem"} -> TypeHint(translate_type(ty, Unsigned), 5)
       [] opc \in {"sdiv", "srem"} -> TypeHint(translate_type(ty, Signed), 5)
       [] opc = "shl" -> NoHint
       [] opc = "lshr" ->
            IF no = 1 THEN TypeHint(translate_type(ty, Unsigned), 5) ELSE NoHint
       [] opc = "ashr" ->
            IF no = 1 THEN TypeHint(translate_type(ty, Signed), 5) ELSE NoHint
       [] opc \in {"and", "or", "xor"} ->
            TypeHint(translate_type(ty, Unsigned), 1)
       [] OTHER -> NoHint

IsSignedPred(p) == p \in {"sgt", "sge", "slt", "sle"}

IsUnsignedPred(p) == p \in {"ugt", "uge", "ult", "ule"}

IsFPPred(p) == p \in {"oeq", "ogt", "une", "ule_f", "false", "true"}

(* infer_type_hint_use_cmp *)
infer_type_hint_use_cmp(T, f, user, no) ==
  LET ty == user.args[no].ty
      p == user.attr.opc
      other == infer_type_hint_operand(T, f, user.args[3 - no])
  IN IF ~IsFPPred(p) /\ ty.k = "int"
     THEN (IF IsSignedPred(p) THEN TypeHint(translate_type(ty, Signed), 5)
           ELSE IF IsUnsignedPred(p)
           THEN TypeHint(translate_type(ty, Unsigned), 5)
           ELSE [other EXCEPT !.score = 2])
     ELSE IF ~IsFPPred(p) /\ ty.k = "ptr" THEN [other EXCEPT !.score = 2]
     ELSE IF IsFPPred(p) THEN NoHint
     ELSE HintError("unexpected llvm::CmpInst")

(* infer_type_hint_use: the hint a use (user, operand number) gives *)
infer_type_hint_use(T, f, use) ==
  LET user == f.blocks[use.b][use.i]
      op == user.op
  IN CASE op = "alloca" -> TypeHint(translate_type(user.args[1].ty, Unsigned), 5)
       [] op = "store" -> infer_type_hint_use_store(T, f, user, use.no)
       [] op = "load" -> infer_type_hint_use_load(T, f, user)
       [] op \in {"call", "invoke"} ->
            infer_type_hint_use_call_helper(T, f, user, use.no)
       [] op \in {"cast", "bitcast"} -> infer_type_hint_use_cast(user)
       [] op = "binop" -> infer_type_hint_use_binary_operator(user, use.no)
       [] op = "cmp" -> infer_type_hint_use_cmp(T, f, user, use.no)
       [] op = "condbr" -> TypeHint(translate_type(user.args[1].ty, Unsigned), 2)
       [] op = "ret" -> TypeHint(f.ret, 5)
       [] op = "phi" -> infer_type_hint_operand(T, f, Ins(user.res, user.ty))
       [] op = "resume" -> NoHint
       [] op = "select" ->
            HintError("select instruction not supported (use the -lower-select pass?)")
       [] OTHER ->
            HintError("unsupported llvm::Instruction in infer_type_hint_use()")

(* the hints of the uses of value n, in use-list order *)
HintsOf(T, f, n) ==
  LET us == UseList(f, n)
  IN [j \in DOMAIN us |-> infer_type_hint_use(T, f, us[j])]

RECURSIVE SumScores(_, _, _)
SumScores(hs, t, j) ==
  IF j > Len(hs) THEN 0
  ELSE (IF ~hs[j].ig /\ hs[j].ty = t THEN hs[j].score ELSE 0)
       + SumScores(hs, t, j + 1)

HintedTypes(hs) == {hs[j].ty : j \in {x \in DOMAIN hs : ~hs[x].ig}}

(* std::max_element over the flat_map< ar::Type*, unsigned >: the map       *)
(* iterates by increasing key, that is by increasing address of the type    *)
(* object, and the first of the greatest scores wins                        *)
max_element(hs, flip) ==
  CHOOSE t \in HintedTypes(hs) :
    \A u \in HintedTypes(hs) :
       \/ SumScores(hs, u, 1) < SumScores(hs, t, 1)
       \/ /\ SumScores(hs, u, 1) = SumScores(hs, t, 1)
          /\ Address(t, flip) <= Address(u, flip)

(* infer_default_type *)
infer_default_type(f, inst) ==
  IF inst.op = "call" /\ Last(inst.args).k = "fun"
  THEN f.callees[Last(inst.args).n].type.ret
  ELSE IF inst.op = "cast"
  THEN translate_type(inst.ty, IF inst.attr.opc \in {"zext", "fptoui"}
                               THEN Unsigned ELSE Signed)
  ELSE translate_type(inst.ty, Signed)

FirstError(hs) ==
  LET bad == {j \in DOMAIN hs : hs[j].ex # ""}
  IN IF bad = {} THEN ""
     ELSE hs[CHOOSE j \in bad : \A x \in bad : j <= x].ex

(* FunctionImporter::infer_type, for a value without debug intrinsics;     *)
(* the type is T.ret                                                       *)
SelectType(T, f, inst, hs) ==
  IF FirstError(hs) # "" THEN Throw(T, FirstError(hs))
  ELSE IF HintedTypes(hs) = {} THEN Ret(T, infer_default_type(f, inst))
  ELSE Ret(T, max_element(hs, T.flip))

infer_type(T, f, inst) ==
  IF ~Ok(T) THEN T ELSE SelectType(T, f, inst, HintsOf(T, f, inst.res))

-----------------------------------------------------------------------------
(* Value translator *)

(* ar::InternalVariable::create / ar::LocalVariable::create; T.ret is the  *)
(* new variable                                                            *)
new_variable(T, ty) ==
  IF ~Ok(T) THEN T
  ELSE [T EXCEPT !.nv = @ + 1, !.ret = Var(T.nv + 1, ty)]

(* mark_variable_mapping: _variables.try_emplace(llvm_val, ar_var) *)
mark_variable_mapping(T, n, var) ==
  IF ~Ok(T) \/ n \in DOMAIN T.vars THEN T
  ELSE [T EXCEPT !.vars = Put(@, n, var)]

(* ConstantImporter::translate_constant(cst, type, block): a constant of   *)
(* the requested type, of the translated LLVM type when none is requested  *)
translate_constant(f, v, type) ==
  IF v.k = "fun" THEN [vk |-> "fun", id |-> 0, ty |-> PtrT(f.callees[v.n].type)]
  ELSE Const(v.val, IF type = NullT THEN translate_type(v.ty, Signed) ELSE type)

(* is_valid_bitcast *)
is_valid_bitcast(from, to) ==
  \/ is_pointer(from) /\ is_pointer(to)
  \/ is_integer(from) /\ is_integer(to) /\ from.w = to.w

BitcastStmt(result, operand, fe) ==
  Stmt("unop", result, <<operand>>, OpInfo("Bitcast"), fe)

(* add_bitcast(bb_translation, result, operand); T.ret is result *)
add_bitcast(T, result, operand) ==
  IF ~Ok(T) THEN T
  ELSE IF ~is_valid_bitcast(operand.ty, result.ty)
  THEN Throw(T, "unexpected ar::Type in add_bitcast()")
  ELSE Ret(add_statement(T, BitcastStmt(result, operand, "cast")), result)

(* add_bitcast(bb_translation, var, type) *)
add_bitcast_to(T, var, type) ==
  LET T1 == new_variable(T, type)
  IN add_bitcast(T1, T1.ret, var)

(* FunctionImporter::translate_value; the value is T.ret *)
translate_value(T, f, v, type) ==
  IF ~Ok(T) THEN T
  ELSE CASE v.k \in {"cst", "fun"} -> Ret(T, translate_constant(f, v, type))
         [] v.k \in {"inst", "arg"} ->
              IF v.n \notin DOMAIN T.vars
              THEN Abort(T, "value hasn't been translated yet")
              ELSE IF type = NullT \/ T.vars[v.n].ty = type
              THEN Ret(T, T.vars[v.n])
              ELSE add_bitcast_to(T, T.vars[v.n], type)
         [] OTHER -> Throw(T, "unexpected llvm::Value in translate_value()")

UnopStmt(op, result, operand, fe) ==
  Stmt("unop", result, <<operand>>, OpInfo(op), fe)

(* add_integer_casts; the last variable of the chain is T.ret *)
add_integer_casts(T, var, type) ==
  LET cur_type == var.ty
      res_type == IntT(type.w, cur_type.s)
      op == IF cur_type.w < type.w
            THEN (IF cur_type.s = Signed THEN "SExt" ELSE "ZExt")
            ELSE (IF cur_type.s = Signed THEN "STrunc" ELSE "UTrunc")
      T1 == IF cur_type.w # type.w
            THEN LET N == new_variable(T, res_type)
                 IN Ret(add_statement(N, UnopStmt(op, N.ret, var, "cast")), N.ret)
            ELSE Ret(T, var)
      T2 == IF cur_type.s # type.s
            THEN LET N == new_variable(T1, type)
                 IN Ret(add_statement(N, BitcastStmt(N.ret, T1.ret, "cast")), N.ret)
            ELSE T1
  IN IF ~Ok(T) THEN T
     ELSE IF ~is_integer(var.ty) THEN Abort(T, "ar::cast< ar::IntegerType >")
     ELSE T2

(* IntegerType::size_type(bundle): the unsigned integer of pointer width *)
SizeType == IntT(64, Unsigned)

(* FunctionImporter::translate_cast_integer_value *)
translate_cast_integer_value(T, f, v, type) ==
  IF ~Ok(T) THEN T
  ELSE CASE v.k = "cst" -> Ret(T, Const(v.val, type))
         [] v.k \in {"inst", "arg"} ->
              IF v.n \notin DOMAIN T.vars
              THEN Abort(T, "value hasn't been translated yet")
              ELSE IF T.vars[v.n].ty = type THEN Ret(T, T.vars[v.n])
              ELSE add_integer_casts(T, T.vars[v.n], type)
         [] OTHER ->
              Throw(T, "unexpected llvm::Value in translate_cast_integer_value()")

-----------------------------------------------------------------------------
(* Instruction translator *)

(* the variable for the result of inst, of the inferred type, recorded in  *)
(* _variables; T.ret is the variable                                       *)
create_result(T, f, inst) ==
  Bind(infer_type(T, f, inst), LAMBDA T1 :
  Bind(new_variable(T1, T1.ret), LAMBDA T2 :
  Ret(mark_variable_mapping(T2, inst.res, T2.ret), T2.ret)))

(* FunctionImporter::translate_alloca *)
translate_alloca(T, f, inst) ==
  Bind(infer_type(T, f, inst), LAMBDA T1 :
  IF ~is_pointer(T1.ret) THEN Abort(T1, "ar::cast< ar::PointerType >")
  ELSE
  Bind(new_variable(T1, T1.ret), LAMBDA T2 :
  Bind(translate_cast_integer_value(mark_variable_mapping(T2, inst.res, T2.ret),
                                    f, inst.args[1], SizeType), LAMBDA T3 :
  add_statement(T3, Stmt("allocate", T2.ret, <<T3.ret>>, NoInfo, inst.res)))))

(* FunctionImporter::translate_store *)
translate_store(T, f, inst) ==
  Bind(translate_value(T, f, inst.args[2], NullT), LAMBDA T1 :
  IF ~is_pointer(T1.ret.ty) THEN Abort(T1, "ar::cast< ar::PointerType >")
  ELSE
  Bind(translate_value(T1, f, inst.args[1], T1.ret.ty.to), LAMBDA T2 :
  add_statement(T2, Stmt("store", NoVar, <<T1.ret, T2.ret>>, NoInfo, "store"))))

(* FunctionImporter::translate_load *)
translate_load(T, f, inst) ==
  Bind(create_result(T, f, inst), LAMBDA T1 :
  Bind(translate_value(T1, f, inst.args[1], PtrT(T1.ret.ty)), LAMBDA T2 :
  add_statement(T2, Stmt("load", T1.ret, <<T2.ret>>, NoInfo, inst.res))))

(* the argument loop of translate_call_helper; T.ret is the arguments *)
RECURSIVE TranslateArguments(_, _, _, _, _, _, _)
TranslateArguments(T, f, args, i, fun_type, force_args_cast, acc) ==
  IF i > Len(args) \/ ~Ok(T) THEN Ret(T, acc)
  ELSE Bind(IF i <= Len(fun_type.params)
               /\ (force_args_cast \/ args[i].k = "cst")
            THEN translate_value(T, f, args[i], fun_type.params[i])
            ELSE translate_value(T, f, args[i], NullT), LAMBDA T1 :
       TranslateArguments(T1, f, args, i + 1, fun_type, force_args_cast,
                          Append(acc, T1.ret)))

(* translate_call_helper: the result variable; T.ret is the variable *)
CallResult(T, f, inst, fun_type, force_return_cast) ==
  IF inst.ty.k = "void" THEN Ret(T, NoVar)
  ELSE Bind(IF force_return_cast THEN infer_type(T, f, inst)
            ELSE Ret(T, fun_type.ret), LAMBDA T1 :
       Bind(new_variable(T1, T1.ret), LAMBDA T2 :
       Ret(mark_variable_mapping(T2, inst.res, T2.ret), T2.ret)))

(* translate_call_helper once the called value is translated *)
CallStatement(T, f, inst, called, force_return_cast, force_args_cast, kind) ==
  LET fun_type == called.ty.to
      has_return_value == inst.ty.k # "void"
  IN
  Bind(CallResult(T, f, inst, fun_type, force_return_cast), LAMBDA T2 :
  LET var == T2.ret
      need_cast == has_return_value /\ force_return_cast /\ fun_type.ret # var.ty
  IN
  Bind(IF need_cast THEN new_variable(T2, fun_type.ret) ELSE Ret(T2, var),
       LAMBDA T3 :
  Bind(TranslateArguments(T3, f, Front(inst.args), 1, fun_type,
                          force_args_cast, <<>>), LAMBDA T4 :
  LET stmt == Stmt(kind, T3.ret, <<called>> \o T4.ret,
                   [NoInfo EXCEPT !.nd = IF kind = "invoke" THEN T.bt.main ELSE 0,
                                  !.ed = IF kind = "invoke" THEN T.bt.main ELSE 0],
                   IF has_return_value THEN inst.res ELSE kind)
  IN IF need_cast THEN add_bitcast(add_statement(T4, stmt), var, T3.ret)
     ELSE add_statement(T4, stmt))))

(* FunctionImporter::translate_call_helper; kind is "call" or "invoke", the *)
(* statement create_stmt builds                                             *)
translate_call_helper(T, f, inst, force_return_cast, force_args_cast, kind) ==
  Bind(translate_value(T, f, Last(inst.args), NullT), LAMBDA T1 :
  IF ~(is_pointer(T1.ret.ty) /\ T1.ret.ty.to.k = "fun")
  THEN Abort(T1, "ar::cast< ar::FunctionType >")
  ELSE IF (inst.ty.k = "void") # (T1.ret.ty.to.ret.k = "void")
  THEN Abort(T1, "call->getType()->isVoidTy() == return_type()->is_void()")
  ELSE CallStatement(T1, f, inst, T1.ret, force_return_cast, force_args_cast,
                     kind))

(* BundleImporter::ignore_intrinsic: the debug and lifetime intrinsics *)
ignore_intrinsic(id) ==
  id \in {"dbg.value", "dbg.declare", "lifetime.start", "lifetime.end"}

(* FunctionImporter::translate_call, with translate_intrinsic_call for the *)
(* intrinsics the bundle ignores and the ones it imports as calls          *)
translate_call(T, f, inst) ==
  IF inst.attr.opc # ""
  THEN (IF ignore_intrinsic(inst.attr.opc) THEN T
        ELSE translate_call_helper(T, f, inst, TRUE, TRUE, "call"))
  ELSE translate_call_helper(T, f, inst, TRUE, Last(inst.args).k = "fun", "call")

(* FunctionImporter::translate_invoke *)
translate_invoke(T, f, inst) ==
  add_invoke_branching(
    translate_call_helper(T, f, inst, FALSE, Last(inst.args).k = "fun", "invoke"),
    inst.succs[1], inst.succs[2])

(* FunctionImporter::translate_bitcast *)
translate_bitcast(T, f, inst) ==
  IF \/ inst.args[1].ty.k = "ptr" /\ inst.ty.k = "ptr"
     \/ inst.args[1].ty.k = "float" /\ inst.ty.k = "int"
     \/ inst.args[1].ty.k = "int" /\ inst.ty.k = "float"
  THEN Bind(create_result(T, f, inst), LAMBDA T1 :
       Bind(translate_value(T1, f, inst.args[1], NullT), LAMBDA T2 :
       add_statement(T2, BitcastStmt(T1.ret, T2.ret, inst.res))))
  ELSE Throw(T, "unexpected llvm::BitCastInst")

(* convert_unary_op *)
convert_unary_op(opc, sign) ==
  CASE opc = "trunc" -> IF sign = Unsigned THEN "UTrunc" ELSE "STrunc"
    [] opc = "zext" -> "ZExt"
    [] opc = "sext" -> "SExt"
    [] opc = "fptoui" -> "FPToUI"
    [] opc = "fptosi" -> "FPToSI"
    [] opc = "uitofp" -> "UIToFP"
    [] opc = "sitofp" -> "SIToFP"
    [] opc = "fptrunc" -> "FPTrunc"
    [] opc = "fpext" -> "FPExt"
    [] opc = "ptrtoint" -> IF sign = Unsigned THEN "PtrToUI" ELSE "PtrToSI"
    [] opc = "inttoptr" -> IF sign = Unsigned THEN "UIToPtr" ELSE "SIToPtr"
    [] OTHER -> "?"

(* the (sign, src_type, dest_type) chosen by the switch of translate_cast  *)
CastRule(opc, var, srcTy, destTy, operand) ==
  CASE opc = "trunc" ->
         [sign |-> var.ty.s, src |-> translate_type(srcTy, var.ty.s), dest |-> var.ty]
    [] opc = "zext" ->
         [sign |-> Unsigned, src |-> translate_type(srcTy, Unsigned),
          dest |-> translate_type(destTy, Unsigned)]
    [] opc = "sext" ->
         [sign |-> Signed, src |-> translate_type(srcTy, Signed),
          dest |-> translate_type(destTy, Signed)]
    [] opc = "fptoui" ->
         [sign |-> Unsigned, src |-> NullT, dest |-> translate_type(destTy, Unsigned)]
    [] opc = "fptosi" ->
         [sign |-> Signed, src |-> NullT, dest |-> translate_type(destTy, Signed)]
    [] opc = "uitofp" ->
         [sign |-> Unsigned, src |-> translate_type(srcTy, Unsigned), dest |-> NullT]
    [] opc = "sitofp" ->
         [sign |-> Signed, src |-> translate_type(srcTy, Signed), dest |-> NullT]
    [] opc \in {"fptrunc", "fpext"} ->
         [sign |-> Signed, src |-> NullT, dest |-> NullT]
    [] opc = "ptrtoint" -> [sign |-> var.ty.s, src |-> NullT, dest |-> var.ty]
    [] opc = "inttoptr" ->
         [sign |-> operand.ty.s, src |-> operand.ty, dest |-> NullT]

(* translate_cast once the operand is translated: the unary operation and  *)
(* the cast of its result                                                   *)
CastOperation(T, inst, var, rule, operand) ==
  LET need_cast == rule.dest # NullT /\ rule.dest # var.ty
  IN Bind(IF need_cast THEN new_variable(T, rule.dest) ELSE Ret(T, var),
          LAMBDA T1 :
     LET stmt == UnopStmt(convert_unary_op(inst.attr.opc, rule.sign),
                          T1.ret, operand, inst.res)
     IN IF need_cast THEN add_bitcast(add_statement(T1, stmt), var, T1.ret)
        ELSE add_statement(T1, stmt))

(* FunctionImporter::translate_cast *)
translate_cast(T, f, inst) ==
  LET opc == inst.attr.opc
  IN
  Bind(create_result(T, f, inst), LAMBDA T1 :
  IF opc \notin {"trunc", "zext", "sext", "fptoui", "fptosi", "uitofp",
                 "sitofp", "fptrunc", "fpext", "ptrtoint", "inttoptr"}
  THEN Throw(T1, "unexpected llvm::CastInst")
  ELSE IF opc \in {"trunc", "ptrtoint"} /\ ~is_integer(T1.ret.ty)
  THEN Abort(T1, "ar::cast< ar::IntegerType >")
  ELSE IF opc = "inttoptr"
  THEN Bind(translate_value(T1, f, inst.args[1], NullT), LAMBDA T2 :
       IF ~is_integer(T2.ret.ty) THEN Abort(T2, "ar::cast< ar::IntegerType >")
       ELSE CastOperation(T2, inst, T1.ret,
                          CastRule(opc, T1.ret, inst.args[1].ty, inst.ty, T2.ret),
                          T2.ret))
  ELSE Bind(translate_value(T1, f, inst.args[1],
                            CastRule(opc, T1.ret, inst.args[1].ty, inst.ty,
                                     NoVar).src), LAMBDA T2 :
       CastOperation(T2, inst, T1.ret,
                     CastRule(opc, T1.ret, inst.args[1].ty, inst.ty, NoVar),
                     T2.ret)))

(* convert_int_bin_op *)
convert_int_bin_op(opc, sign) ==
  LET pre == IF sign = Unsigned THEN "U" ELSE "S"
  IN CASE opc = "add" -> pre \o "Add" [] opc = "sub" -> pre \o "Sub"
       [] opc = "mul" -> pre \o "Mul"
       [] opc \in {"udiv", "sdiv"} -> pre \o "Div"
       [] opc \in {"urem", "srem"} -> pre \o "Rem"
       [] opc = "shl" -> pre \o "Shl" [] opc = "lshr" -> pre \o "LShr"
       [] opc = "ashr" -> pre \o "AShr" [] opc = "and" -> pre \o "And"
       [] opc = "or" -> pre \o "Or" [] opc = "xor" -> pre \o "Xor"
       [] OTHER -> "?"

(* convert_float_bin_op *)
convert_float_bin_op(opc) ==
  CASE opc = "fadd" -> "FAdd" [] opc = "fsub" -> "FSub"
    [] opc = "fmul" -> "FMul" [] opc = "fdiv" -> "FDiv"
    [] opc = "frem" -> "FRem" [] OTHER -> "?"

IsBitwiseOrShift(opc) == opc \in {"shl", "lshr", "ashr", "and", "or", "xor"}

(* the first operand that is not a constant, the second when the first is  *)
(* a constant                                                               *)
FirstNonConstant(inst) == IF inst.args[1].k # "cst" THEN 1 ELSE 2

(* translate_binary_operator on integers once the operands are translated: *)
(* the binary operation and the cast of its result                          *)
IntBinaryOperation(T, inst, var, sign, stmt_type, left, right) ==
  LET need_cast == stmt_type # var.ty
      no_wrap == inst.attr.opc \in {"add", "sub", "mul", "shl"}
                 /\ (inst.attr.nsw \/ inst.attr.nuw)
  IN Bind(IF need_cast THEN new_variable(T, stmt_type) ELSE Ret(T, var),
          LAMBDA T1 :
     LET stmt == Stmt("binop", T1.ret, <<left, right>>,
                      [NoInfo EXCEPT !.op = convert_int_bin_op(inst.attr.opc, sign),
                                     !.nw = no_wrap], inst.res)
     IN IF need_cast THEN add_bitcast(add_statement(T1, stmt), var, T1.ret)
        ELSE add_statement(T1, stmt))

(* translate_binary_operator, the integer case *)
IntBinaryOperator(T, f, inst, var) ==
  LET opc == inst.attr.opc
      first == FirstNonConstant(inst)
      sign == CASE opc \in {"add", "sub", "mul"} -> sign_from_wraps(inst.attr)
                [] opc \in {"udiv", "urem"} -> Unsigned
                [] OTHER -> Signed
      stmt_type == translate_type(inst.ty, sign)
  IN IF IsBitwiseOrShift(opc)
     THEN \* the sign of the first non-constant operand, translated first
          Bind(translate_value(T, f, inst.args[first], NullT), LAMBDA T1 :
          IF ~is_integer(T1.ret.ty) THEN Abort(T1, "ar::cast< ar::IntegerType >")
          ELSE
          Bind(translate_value(T1, f, inst.args[3 - first], T1.ret.ty), LAMBDA T2 :
          IntBinaryOperation(T2, inst, var, T1.ret.ty.s, T1.ret.ty,
                             IF first = 1 THEN T1.ret ELSE T2.ret,
                             IF first = 1 THEN T2.ret ELSE T1.ret)))
     ELSE IF opc \in {"add", "sub", "mul", "udiv", "urem", "sdiv", "srem"}
     THEN Bind(translate_value(T, f, inst.args[1], stmt_type), LAMBDA T1 :
          Bind(translate_value(T1, f, inst.args[2], stmt_type), LAMBDA T2 :
          IntBinaryOperation(T2, inst, var, sign, stmt_type, T1.ret, T2.ret)))
     ELSE Abort(T, "unreachable")

(* translate_binary_operator, the floating point case *)
FloatBinaryOperator(T, f, inst, var) ==
  Bind(translate_value(T, f, inst.args[1], NullT), LAMBDA T1 :
  Bind(translate_value(T1, f, inst.args[2], NullT), LAMBDA T2 :
  IF T1.ret.ty # var.ty THEN Abort(T2, "left->type() == var->type()")
  ELSE add_statement(T2, Stmt("binop", var, <<T1.ret, T2.ret>>,
                              OpInfo(convert_float_bin_op(inst.attr.opc)),
                              inst.res))))

(* FunctionImporter::translate_binary_operator *)
translate_binary_operator(T, f, inst) ==
  Bind(create_result(T, f, inst), LAMBDA T1 :
  IF inst.ty.k = "int" THEN IntBinaryOperator(T1, f, inst, T1.ret)
  ELSE IF inst.ty.k = "float" THEN FloatBinaryOperator(T1, f, inst, T1.ret)
  ELSE Throw(T1, "unexpected llvm::BinaryOperator"))

(* convert_int_predicate, convert_ptr_predicate, convert_float_predicate *)
convert_int_predicate(p, sign) ==
  LET pre == IF sign = Signed THEN "SI" ELSE "UI"
  IN CASE p = "eq" -> pre \o "EQ" [] p = "ne" -> pre \o "NE"
       [] p \in {"sgt", "ugt"} -> pre \o "GT" [] p \in {"sge", "uge"} -> pre \o "GE"
       [] p \in {"slt", "ult"} -> pre \o "LT" [] p \in {"sle", "ule"} -> pre \o "LE"
       [] OTHER -> "?"

convert_ptr_predicate(p) ==
  CASE p = "eq" -> "PEQ" [] p = "ne" -> "PNE" [] p = "ugt" -> "PGT"
    [] p = "uge" -> "PGE" [] p = "ult" -> "PLT" [] p = "ule" -> "PLE"
    [] OTHER -> "?"

convert_float_predicate(p) ==
  CASE p = "oeq" -> "FOEQ" [] p = "ogt" -> "FOGT" [] p = "une" -> "FUNE"
    [] p = "ule_f" -> "FULE" [] OTHER -> "?"

(* translate_cmp once the operands are translated: the result variable and *)
(* the comparison                                                           *)
Comparison(T, f, inst, pred, left, right) ==
  Bind(create_result(T, f, inst), LAMBDA T1 :
  add_comparison(T1, T1.ret,
                 Stmt("cmp", NoVar, <<left, right>>, OpInfo(pred), inst.res)))

(* translate_cmp, the integer case *)
IntComparison(T, f, inst) ==
  LET p == inst.attr.opc
      first == FirstNonConstant(inst)
      sign == IF IsSignedPred(p) THEN Signed ELSE Unsigned
      ar_type == translate_type(inst.args[1].ty, sign)
  IN IF IsSignedPred(p) \/ IsUnsignedPred(p)
     THEN Bind(translate_value(T, f, inst.args[1], ar_type), LAMBDA T1 :
          Bind(translate_value(T1, f, inst.args[2], ar_type), LAMBDA T2 :
          Comparison(T2, f, inst, convert_int_predicate(p, sign), T1.ret, T2.ret)))
     ELSE \* the sign of the first non-constant operand, translated first
          Bind(translate_value(T, f, inst.args[first], NullT), LAMBDA T1 :
          IF ~is_integer(T1.ret.ty) THEN Abort(T1, "ar::cast< ar::IntegerType >")
          ELSE
          Bind(translate_value(T1, f, inst.args[3 - first], T1.ret.ty), LAMBDA T2 :
          Comparison(T2, f, inst, convert_int_predicate(p, T1.ret.ty.s),
                     IF first = 1 THEN T1.ret ELSE T2.ret,
                     IF first = 1 THEN T2.ret ELSE T1.ret)))

(* translate_cmp, the pointer and floating point cases *)
OtherComparison(T, f, inst) ==
  Bind(translate_value(T, f, inst.args[1], NullT), LAMBDA T1 :
  Bind(translate_value(T1, f, inst.args[2], NullT), LAMBDA T2 :
  Bind(create_result(T2, f, inst), LAMBDA T3 :
  IF inst.args[1].ty.k = "ptr"
  THEN add_comparison(T3, T3.ret,
         Stmt("cmp", NoVar, <<T1.ret, T2.ret>>,
              OpInfo(convert_ptr_predicate(inst.attr.opc)), inst.res))
  ELSE IF inst.attr.opc \in {"false", "true"}
  THEN Throw(T3, "unsupported llvm::CmpInst predicate")
  ELSE add_comparison(T3, T3.ret,
         Stmt("cmp", NoVar, <<T1.ret, T2.ret>>,
              OpInfo(convert_float_predicate(inst.attr.opc)), inst.res)))))

(* FunctionImporter::translate_cmp *)
translate_cmp(T, f, inst) ==
  IF ~IsFPPred(inst.attr.opc) /\ inst.args[1].ty.k = "int"
  THEN IntComparison(T, f, inst)
  ELSE IF (~IsFPPred(inst.attr.opc) /\ inst.args[1].ty.k = "ptr")
          \/ IsFPPred(inst.attr.opc)
  THEN OtherComparison(T, f, inst)
  ELSE Throw(T, "unexpected llvm::CmpInst")

(* fault injection: a constant condition always selects the first          *)
(* successor                                                                *)
ConstantBranchTakingFirst(T, f, inst, b, i) ==
  IF inst.op = "br" \/ inst.args[1].k = "cst"
  THEN add_unconditional_branching(T, inst.succs[1])
  ELSE IF inst.args[1].n \notin DOMAIN T.vars
  THEN Throw(T, "conditiof of llvm::BranchInst hasn't been translated")
  ELSE add_conditional_branching(T, inst.succs[1], inst.succs[2],
                                 OnlyUsedBy(f, inst.args[1].n, b, i),
                                 T.vars[inst.args[1].n], inst.args[1].n)

(* FunctionImporter::translate_branch; (b, i) is the place of the branch *)
translate_branch(T, f, inst, b, i) ==
  IF inst.op = "br" THEN add_unconditional_branching(T, inst.succs[1])
  ELSE LET condition == inst.args[1]
       IN IF condition.k \in {"inst", "arg"}
          THEN (IF condition.n \notin DOMAIN T.vars
                THEN Throw(T, "conditiof of llvm::BranchInst hasn't been translated")
                ELSE add_conditional_branching(T, inst.succs[1], inst.succs[2],
                       OnlyUsedBy(f, condition.n, b, i),
                       T.vars[condition.n], condition.n))
          ELSE IF condition.k = "cst"
          THEN add_unconditional_branching(T,
                 inst.succs[IF condition.val = 0 THEN 2 ELSE 1])
          ELSE Throw(T, "unexpected condition for llvm::BranchInst")

(* FunctionImporter::translate_return *)
translate_return(T, f, inst) ==
  IF inst.args = <<>>
  THEN add_statement(T, Stmt("return", NoVar, <<>>, NoInfo, "ret"))
  ELSE Bind(translate_value(T, f, inst.args[1], f.ret), LAMBDA T1 :
       add_statement(T1, Stmt("return", NoVar, <<T1.ret>>, NoInfo, "ret")))

(* FunctionImporter::translate_phi: the assignments come later *)
translate_phi(T, f, inst) == create_result(T, f, inst)

(* FunctionImporter::translate_unreachable *)
translate_unreachable(T) ==
  add_statement(T, Stmt("unreachable", NoVar, <<>>, NoInfo, "unreachable"))

(* FunctionImporter::translate_landingpad *)
translate_landingpad(T, f, inst) ==
  Bind(create_result(T, f, inst), LAMBDA T1 :
  add_statement(T1, Stmt("landingpad", T1.ret, <<>>, NoInfo, inst.res)))

(* FunctionImporter::translate_resume *)
translate_resume(T, f, inst) ==
  Bind(translate_value(T, f, inst.args[1], NullT), LAMBDA T1 :
  add_statement(T1, Stmt("resume", NoVar, <<T1.ret>>, NoInfo, "resume")))

(* the opcode switch of translate_instruction *)
Dispatch(T, f, inst, b, i) ==
  CASE inst.op = "alloca" -> translate_alloca(T, f, inst)
    [] inst.op = "store" -> translate_store(T, f, inst)
    [] inst.op = "load" -> translate_load(T, f, inst)
    [] inst.op = "call" -> translate_call(T, f, inst)
    [] inst.op = "invoke" -> translate_invoke(T, f, inst)
    [] inst.op = "bitcast" -> translate_bitcast(T, f, inst)
    [] inst.op = "cast" -> translate_cast(T, f, inst)
    [] inst.op = "binop" -> translate_binary_operator(T, f, inst)
    [] inst.op = "cmp" -> translate_cmp(T, f, inst)
    [] inst.op \in {"br", "condbr"} -> translate_branch(T, f, inst, b, i)
    [] inst.op = "ret" -> translate_return(T, f, inst)
    [] inst.op = "phi" -> translate_phi(T, f, inst)
    [] inst.op = "unreachable" -> translate_unreachable(T)
    [] inst.op = "landingpad" -> translate_landingpad(T, f, inst)
    [] inst.op = "resume" -> translate_resume(T, f, inst)
    [] inst.op = "select" ->
         Throw(T, "select instruction not supported (use the -lower-select pass?)")
    [] inst.op = "switch" ->
         Throw(T, "switch instruction not supported (use the -lowerswitch pass?)")
    [] OTHER -> Throw(T, "unsupported llvm::Instruction")

(* fault injection: the outputs are never merged *)
KeepsOutputsAlways(inst) == inst.op # ""

(* fault injection: a load does not merge the outputs either *)
KeepsOutputsBeforeLoad(inst) ==
  inst.op \in {"cmp", "binop", "br", "condbr", "load"}

(* fault injection: a return, unreachable or resume does not merge the     *)
(* outputs either                                                           *)
KeepsOutputsBeforeExit(inst) ==
  inst.op \in {"cmp", "binop", "br", "condbr", "ret", "unreachable", "resume"}

(* the instructions before which several outputs are not merged *)
KeepsOutputs(inst) == inst.op \in {"cmp", "binop", "br", "condbr"}

(* FunctionImporter::translate_instruction *)
translate_instruction(T, f, b, i) ==
  Bind(IF Len(T.bt.outputs) > 1 /\ ~KeepsOutputs(f.blocks[b][i])
       THEN merge_outputs(T) ELSE T, LAMBDA T1 :
  Dispatch(T1, f, f.blocks[b][i], b, i))

-----------------------------------------------------------------------------
(* Function translator: the passes of translate_body *)

MoreThanOneExit ==
  "function has more than one exit block (use the -mergereturn pass?)"

MoreThanOneUnreachable ==
  "function has more than one unreachable block (use the -mergereturn pass?)"

MoreThanOneEhresume ==
  "function has more than one ehresume block (use the -mergereturn pass?)"

(* the blocks whose terminator is a ReturnInst / UnreachableInst / ResumeInst *)
TerminatedBy(f, op) == {b \in LBlocks(f) : Terminator(f, b).op = op}

(* llvm_return_blocks[0], nullptr (0) for an empty vector *)
FirstOf(S) == IF S = {} THEN 0 ELSE CHOOSE b \in S : \A c \in S : b <= c

(* fault injection: the worklist seeded with the last block of the         *)
(* function instead of its entry block                                      *)
LastBlockAsEntry(f) == Len(f.blocks)

(* llvm::Function::getEntryBlock() *)
EntryBlock(f) == 1

(* fault injection: mark_special_blocks keeping the first block of each    *)
(* kind and never raising                                                   *)
MarkFirstSpecialBlocks(f) ==
  [ex |-> "none", msg |-> "", ret |-> FirstOf(TerminatedBy(f, "ret")),
   unr |-> FirstOf(TerminatedBy(f, "unreachable")),
   ehr |-> FirstOf(TerminatedBy(f, "resume"))]

(* FunctionImporter::mark_special_blocks: _llvm_return_bb,                 *)
(* _llvm_unreachable_bb, _llvm_ehresume_bb, or the ImportError              *)
mark_special_blocks(f) ==
  LET rs == TerminatedBy(f, "ret")
      us == TerminatedBy(f, "unreachable")
      es == TerminatedBy(f, "resume")
      none == [ex |-> "none", msg |-> "", ret |-> 0, unr |-> 0, ehr |-> 0]
  IN IF Cardinality(rs) > 1
     THEN [none EXCEPT !.ex = "ImportError", !.msg = MoreThanOneExit]
     ELSE IF Cardinality(us) > 1
     THEN [none EXCEPT !.ex = "ImportError", !.msg = MoreThanOneUnreachable,
                       !.ret = FirstOf(rs)]
     ELSE IF Cardinality(es) > 1
     THEN [none EXCEPT !.ex = "ImportError", !.msg = MoreThanOneEhresume,
                       !.ret = FirstOf(rs), !.unr = FirstOf(us)]
     ELSE [none EXCEPT !.ret = FirstOf(rs), !.unr = FirstOf(us),
                       !.ehr = FirstOf(es)]

(* the ar::InternalVariable that ar::Function::create made for parameter i *)
Parameter(f, i) == Var(0 - i, f.params[i].aty)

(* FunctionImporter::translate_parameters: the mapping it records *)
translate_parameters(f) ==
  [n \in {f.params[i].n : i \in DOMAIN f.params} |->
     Parameter(f, CHOOSE i \in DOMAIN f.params : f.params[i].n = n)]

NoSlots == [entry |-> 0, exit |-> 0, unreachable |-> 0, ehresume |-> 0]

(* BasicBlockTranslation::mark_entry_block *)
mark_entry_block(bt, S) == [S EXCEPT !.entry = bt.main]

(* fault injection: mark_exit_block leaving the exit slot unset *)
ExitBlockNotMarked(bt, S) == S

(* BasicBlockTranslation::mark_exit_block; S carries the slots of the code *)
(* and the exception in flight                                              *)
mark_exit_block(bt, S) ==
  IF S.ex # "none" THEN S
  ELSE IF Len(bt.outputs) # 1
  THEN [S EXCEPT !.ex = "ImportError", !.msg = "exit block has more than one output"]
  ELSE [S EXCEPT !.slots.exit = bt.outputs[1].block]

(* BasicBlockTranslation::mark_unreachable_block *)
mark_unreachable_block(bt, S) ==
  IF S.ex # "none" THEN S
  ELSE IF Len(bt.outputs) # 1
  THEN [S EXCEPT !.ex = "ImportError",
                 !.msg = "unreachable block has more than one output"]
  ELSE [S EXCEPT !.slots.unreachable = bt.outputs[1].block]

(* BasicBlockTranslation::mark_ehresume_block *)
mark_ehresume_block(bt, S) ==
  IF S.ex # "none" THEN S
  ELSE IF Len(bt.outputs) # 1
  THEN [S EXCEPT !.ex = "ImportError",
                 !.msg = "ehresume block has more than one output"]
  ELSE [S EXCEPT !.slots.ehresume = bt.outputs[1].block]

(* the end of translate_basic_block: set exit/unreachable/ehresume blocks *)
MarkSpecial(bt, sp, sl) ==
  LET S0 == [slots |-> sl, ex |-> "none", msg |-> ""]
      S1 == IF bt.source = sp.ret THEN mark_exit_block(bt, S0) ELSE S0
      S2 == IF bt.source = sp.unr THEN mark_unreachable_block(bt, S1) ELSE S1
  IN IF bt.source = sp.ehr THEN mark_ehresume_block(bt, S2) ELSE S2

(* the statement translate_phi_late pushes for one incoming value *)
PhiStmt(result, value, phi) ==
  IF value.ty = result.ty
  THEN Stmt("assign", result, <<value>>, NoInfo, phi.res)
  ELSE BitcastStmt(result, value, phi.res)

(* FunctionImporter::translate_phi_late, from incoming pair i on *)
RECURSIVE translate_phi_late(_, _, _, _)
translate_phi_late(T, f, phi, i) ==
  IF ~Ok(T) \/ i > Len(phi.args) THEN T
  ELSE LET result == T.vars[phi.res]
           llvm_value == phi.args[i]
       IN Bind(input_basic_block(T, phi.succs[i]), LAMBDA T1 :
          Bind(IF llvm_value.k = "cst"
               THEN translate_value(T1, f, llvm_value, result.ty)
               ELSE translate_value(T1, f, llvm_value, NullT), LAMBDA T2 :
          IF T2.ret.ty = result.ty \/ is_valid_bitcast(T2.ret.ty, result.ty)
          THEN translate_phi_late(
                 [T2 EXCEPT !.bbs = push_back(@, T1.ret,
                                              PhiStmt(result, T2.ret, phi))],
                 f, phi, i + 1)
          ELSE Throw(T2, "unexpected ar::Type in translate_phi_late()")))

(* FunctionImporter::translate_phi_nodes(bb_translation, bb), from         *)
(* instruction i on                                                         *)
RECURSIVE translate_phi_nodes(_, _, _, _)
translate_phi_nodes(T, f, b, i) ==
  IF ~Ok(T) \/ i > Len(f.blocks[b]) THEN T
  ELSE translate_phi_nodes(
         IF f.blocks[b][i].op = "phi"
         THEN translate_phi_late(T, f, f.blocks[b][i], 1) ELSE T,
         f, b, i + 1)

(* the blocks of the function that have a translation, in the order of the *)
(* function (the loops of translate_phi_nodes() and link_basic_blocks())    *)
TranslatedBlocks(f, bs) ==
  SelectSeq([b \in 1..Len(f.blocks) |-> b], LAMBDA b : b \in DOMAIN bs)

(* fault injection: every output linked to the main block of its successor *)
RECURSIVE LinkToMain(_, _, _, _)
LinkToMain(R, bs, bt, i) ==
  IF i > Len(bt.outputs) THEN R
  ELSE IF bt.outputs[i].succ = 0 THEN LinkToMain(R, bs, bt, i + 1)
  ELSE LinkToMain([R EXCEPT !.bbs = add_successor(@, bt.outputs[i].block,
                                      bs[bt.outputs[i].succ].main)],
                  bs, bt, i + 1)

(* FunctionImporter::link_basic_block, from output i on; R is the code's   *)
(* blocks and the exception in flight                                       *)
RECURSIVE link_basic_block(_, _, _, _)
link_basic_block(R, bs, bt, i) ==
  IF R.ex # "none" \/ i > Len(bt.outputs) THEN R
  ELSE LET ar_block == bt.outputs[i].block
           llvm_succ == bt.outputs[i].succ
       IN IF llvm_succ = 0 THEN link_basic_block(R, bs, bt, i + 1)
          ELSE IF llvm_succ \notin DOMAIN bs
          THEN [R EXCEPT !.ex = "assert", !.msg = "this->_blocks[llvm_succ]"]
          ELSE IF DOMAIN bs[llvm_succ].inputs = {}
          THEN link_basic_block(
                 [R EXCEPT !.bbs = add_successor(@, ar_block, bs[llvm_succ].main)],
                 bs, bt, i + 1)
          ELSE IF bt.source \notin DOMAIN bs[llvm_succ].inputs
          THEN [R EXCEPT !.ex = "assert",
                         !.msg = "succ_translation->inputs.find(llvm_block)"]
          ELSE link_basic_block(
                 [R EXCEPT !.bbs = add_successor(@, ar_block,
                                     bs[llvm_succ].inputs[bt.source])],
                 bs, bt, i + 1)

-----------------------------------------------------------------------------
(* The LLVM functions imported: control-flow graphs over NumBlocks blocks,  *)
(* instruction sequences of at most MaxInsts instructions, and a few        *)
(* hand-written functions.                                                  *)

NumBlocks == 3

MaxInsts == 3

I32 == LInt(32)

I1 == LInt(1)

SI32 == IntT(32, Signed)

(* the parameters: the LLVM argument, and the type of the variable that    *)
(* ar::Function::create made for it                                         *)
Params ==
  << [n |-> "x", ty |-> I32, aty |-> SI32],
     [n |-> "p", ty |-> LPtr(I32), aty |-> PtrT(SI32)],
     [n |-> "fl", ty |-> LFloat(32), aty |-> FloatT(32)],
     [n |-> "c", ty |-> I1, aty |-> IntT(1, Unsigned)],
     [n |-> "e", ty |-> LPtr(LInt(8)), aty |-> PtrT(IntT(8, Signed))] >>

(* the functions called: their ar::FunctionType, whether they carry debug  *)
(* information, are variadic, are ignored intrinsics                        *)
Callees ==
  [n \in {"g", "llvm.dbg.value"} |->
     IF n = "g"
     THEN [type |-> FunT(SI32, <<SI32>>), dbg |-> FALSE, vararg |-> FALSE,
           ignored |-> FALSE]
     ELSE [type |-> FunT(VoidT, <<SI32>>), dbg |-> FALSE, vararg |-> FALSE,
           ignored |-> TRUE]]

Function(bs) ==
  [blocks |-> bs, ret |-> SI32, dbg |-> FALSE, callees |-> Callees,
   params |-> Params]

X == Arg("x", I32)

GRef == FunRef("g", LPtr(LFun(I32, <<I32>>)))

Plain(op, res, ty, args, opc) == Instr(op, res, ty, args, opc, FALSE, FALSE, <<>>)

Br(s) == Instr("br", NoRes, LVoid, <<>>, "", FALSE, FALSE, <<s>>)

CondBr(cond, s, t) == Instr("condbr", NoRes, LVoid, <<cond>>, "", FALSE, FALSE, <<s, t>>)

RetI(v) == Plain("ret", NoRes, LVoid, <<v>>, "")

UnreachableI == Plain("unreachable", NoRes, LVoid, <<>>, "")

ResumeI(v) == Plain("resume", NoRes, LVoid, <<v>>, "")

(* --- control-flow graphs --- *)

Targets == 2..NumBlocks

TermChoices ==
  {[op |-> o, s |-> 0, t |-> 0] : o \in {"ret", "unreachable", "resume"}}
  \cup {[op |-> "br", s |-> s, t |-> 0] : s \in Targets}
  \cup {[op |-> "condbr", s |-> st[1], t |-> st[2]] :
          st \in {x \in Targets \X Targets : x[1] # x[2]}}

SuccsOfChoice(tc) ==
  CASE tc.op = "br" -> <<tc.s>> [] tc.op = "condbr" -> <<tc.s, tc.t>>
    [] OTHER -> <<>>

RECURSIVE Reach(_, _, _)
Reach(sm, S, avoid) ==
  LET S2 == S \cup {t \in DOMAIN sm : t \notin avoid /\ \E a \in S : t \in Range(sm[a])}
  IN IF S2 = S THEN S ELSE Reach(sm, S2, avoid)

(* the blocks reachable from the entry block *)
Reachable(sm) == Reach(sm, {1}, {})

(* a strictly dominates b *)
Dominates(sm, a, b) ==
  /\ a # b
  /\ b \in Reachable(sm)
  /\ (a = 1 \/ b \notin Reach(sm, {1}, {a}))

DefName(b) == "d" \o ToString(b)

PhiName(b) == "p" \o ToString(b)

CmpName(b) == "c" \o ToString(b)

UseName(b, a) == "u" \o ToString(b) \o ToString(a)

BlockSeq(n) == [b \in 1..n |-> b]

(* block b of the graph: a PHI over the definitions of the predecessors, a *)
(* definition, one use of each definition that dominates the block, and    *)
(* the terminator                                                           *)
CFGBlock(sm, tc, b) ==
  LET preds == SelectSeq(BlockSeq(Len(sm)), LAMBDA a : b \in Range(sm[a]))
      doms == SelectSeq(BlockSeq(Len(sm)), LAMBDA a : Dominates(sm, a, b))
      phi == IF preds = <<>> THEN <<>>
             ELSE <<Instr("phi", PhiName(b), I32,
                          [i \in DOMAIN preds |-> Ins(DefName(preds[i]), I32)],
                          "", FALSE, FALSE, preds)>>
      def == <<Plain("binop", DefName(b), I32,
                     <<IF preds = <<>> THEN X ELSE Ins(PhiName(b), I32),
                       Cst(1, I32)>>, "add")>>
      uses == [i \in DOMAIN doms |->
                 Instr("binop", UseName(b, doms[i]), I32,
                       <<Ins(DefName(doms[i]), I32), Cst(1, I32)>>,
                       "add", TRUE, FALSE, <<>>)]
      term == CASE tc.op = "ret" -> <<RetI(Ins(DefName(b), I32))>>
                [] tc.op = "unreachable" -> <<UnreachableI>>
                [] tc.op = "resume" -> <<ResumeI(Arg("e", LPtr(LInt(8))))>>
                [] tc.op = "br" -> <<Br(tc.s)>>
                [] tc.op = "condbr" ->
                     <<Plain("cmp", CmpName(b), I1,
                             <<Ins(DefName(b), I32), Cst(0, I32)>>, "slt"),
                       CondBr(Ins(CmpName(b), I1), tc.s, tc.t)>>
  IN phi \o def \o uses \o term

CFGFunction(shape) ==
  LET sm == [b \in DOMAIN shape |-> SuccsOfChoice(shape[b])]
  IN Function([b \in DOMAIN shape |-> CFGBlock(sm, shape[b], b)])

CFGFunctions == {CFGFunction(shape) : shape \in [1..NumBlocks -> TermChoices]}

(* --- instruction sequences --- *)

A == Ins("a", I32)

P == Arg("p", LPtr(I32))

(* the instructions a sequence is made of *)
Alphabet ==
  << Plain("binop", "a", I32, <<X, Cst(1, I32)>>, "add"),
     Plain("cmp", "c1", I1, <<A, Cst(0, I32)>>, "slt"),
     Plain("cmp", "c2", I1, <<A, Cst(5, I32)>>, "ult"),
     Plain("cmp", "c3", I1, <<X, Cst(0, I32)>>, "eq"),
     Plain("store", NoRes, LVoid, <<X, P>>, ""),
     Plain("load", "l", I32, <<P>>, ""),
     Plain("bitcast", "i", I32, <<Arg("fl", LFloat(32))>>, ""),
     Plain("bitcast", "q", LPtr(LInt(8)), <<P>>, ""),
     Plain("call", "r", I32, <<A, GRef>>, ""),
     Plain("binop", "m", I32, <<A, Cst(3, I32)>>, "and") >>

Defined(seq, n) == \E j \in DOMAIN seq : seq[j].res = n

(* every instruction operand is the result of an earlier instruction *)
WellFormed(seq) ==
  \A j \in DOMAIN seq : \A k \in DOMAIN seq[j].args :
     seq[j].args[k].k = "inst" => Defined(SubSeq(seq, 1, j - 1), seq[j].args[k].n)

Sequences ==
  {seq \in {[j \in DOMAIN ix |-> Alphabet[ix[j]]] :
              ix \in {x \in UNION {[1..n -> DOMAIN Alphabet] : n \in 0..MaxInsts} :
                        \A j, k \in DOMAIN x : j # k => x[j] # x[k]}} :
     WellFormed(seq)}

(* the conditions the branch that ends a sequence may test: a parameter, a *)
(* constant, the result of the last comparison of the sequence             *)
Conditions(seq) ==
  {Arg("c", I1), Cst(0, I1), Cst(1, I1)}
  \cup {Ins(seq[j].res, I1) : j \in {x \in DOMAIN seq : seq[x].op = "cmp"}}

SequenceFunction(seq, term) ==
  Function(<< seq \o <<term>>, <<RetI(X)>>, <<UnreachableI>> >>)

SequenceFunctions ==
  UNION {{SequenceFunction(seq, Br(2))}
         \cup {SequenceFunction(seq, CondBr(c, 2, 3)) : c \in Conditions(seq)} :
         seq \in Sequences}

(* --- hand-written functions --- *)

(* a loop whose two PHIs exchange their values at each iteration *)
SwapFunction ==
  Function(<<
    <<Br(2)>>,
    <<Instr("phi", "pa", I32, <<Cst(0, I32), Ins("pb", I32)>>, "", FALSE, FALSE, <<1, 2>>),
      Instr("phi", "pb", I32, <<Cst(1, I32), Ins("pa", I32)>>, "", FALSE, FALSE, <<1, 2>>),
      Plain("cmp", "k", I1, <<Ins("pa", I32), X>>, "slt"),
      CondBr(Ins("k", I1), 2, 3)>>,
    <<RetI(Ins("pb", I32))>> >>)

(* an invoke, its normal destination and its landing pad *)
InvokeFunction ==
  Function(<<
    <<Instr("invoke", "r", I32, <<X, GRef>>, "", FALSE, FALSE, <<2, 3>>)>>,
    <<RetI(Ins("r", I32))>>,
    <<Plain("landingpad", "lp", LPtr(LInt(8)), <<>>, ""),
      ResumeI(Ins("lp", LPtr(LInt(8))))>> >>)

(* a call to an ignored intrinsic between a comparison and its branch *)
IntrinsicFunction ==
  Function(<<
    <<Plain("cmp", "c3", I1, <<X, Cst(0, I32)>>, "eq"),
      Plain("call", NoRes, LVoid,
            <<X, FunRef("llvm.dbg.value", LPtr(LFun(LVoid, <<I32>>)))>>,
            "dbg.value"),
      CondBr(Ins("c3", I1), 2, 3)>>,
    <<RetI(X)>>,
    <<UnreachableI>> >>)

(* a comparison used by its branch and again in a successor *)
SharedConditionFunction ==
  Function(<<
    <<Plain("cmp", "c3", I1, <<X, Cst(0, I32)>>, "eq"),
      CondBr(Ins("c3", I1), 2, 3)>>,
    <<Plain("cast", "z", I32, <<Ins("c3", I1)>>, "zext"),
      RetI(Ins("z", I32))>>,
    <<UnreachableI>> >>)

(* an invoke after a comparison of the same block *)
InvokeAfterComparisonFunction ==
  Function(<<
    <<Plain("cmp", "c3", I1, <<X, Cst(0, I32)>>, "eq"),
      Instr("invoke", "r", I32, <<X, GRef>>, "", FALSE, FALSE, <<2, 3>>)>>,
    <<RetI(Ins("r", I32))>>,
    <<Plain("landingpad", "lp", LPtr(LInt(8)), <<>>, ""),
      ResumeI(Ins("lp", LPtr(LInt(8))))>> >>)

(* an unsupported instruction in a block visited after the entry block *)
SelectFunction ==
  Function(<<
    <<Plain("binop", "a", I32, <<X, Cst(1, I32)>>, "add"), Br(2)>>,
    <<Plain("select", "s", I32, <<Arg("c", I1), X, Cst(1, I32)>>, ""),
      RetI(Ins("s", I32))>> >>)

(* a comparison used by a branch that does not follow it immediately and   *)
(* again in a successor                                                     *)
SharedConditionAfterLoadFunction ==
  Function(<<
    <<Plain("cmp", "c3", I1, <<X, Cst(0, I32)>>, "eq"),
      Plain("load", "l", I32, <<P>>, ""),
      CondBr(Ins("c3", I1), 2, 3)>>,
    <<Plain("cast", "z", I32, <<Ins("c3", I1)>>, "zext"),
      RetI(Ins("z", I32))>>,
    <<UnreachableI>> >>)

(* an add, sub or mul with each combination of nsw and nuw, on a loaded    *)
(* value that has no other use                                              *)
WrapFunction(opc, nsw, nuw) ==
  Function(<<
    <<Plain("load", "l", I32, <<P>>, ""),
      Instr("binop", "w", I32, <<Ins("l", I32), Cst(1, I32)>>, opc, nsw, nuw, <<>>),
      Br(2)>>,
    <<RetI(Ins("w", I32))>>,
    <<UnreachableI>> >>)

WrapFunctions ==
  {WrapFunction(opc, nsw, nuw) :
     opc \in {"add", "sub", "mul"}, nsw \in BOOLEAN, nuw \in BOOLEAN}

(* the sequences made of comparisons and binary operators only *)
PredicateSequences ==
  {seq \in Sequences :
     /\ \A j \in DOMAIN seq : seq[j].op \in {"cmp", "binop"}
     /\ \E j \in DOMAIN seq : seq[j].op = "cmp"}

(* comparisons and binary operators before a return, before an unreachable *)
(* and before a resume                                                      *)
ExitFunctions ==
  UNION {{Function(<< seq \o <<RetI(X)>> >>),
          Function(<< seq \o <<UnreachableI>> >>),
          Function(<<
            <<Instr("invoke", "r", I32, <<X, GRef>>, "", FALSE, FALSE, <<2, 3>>)>>,
            <<RetI(Ins("r", I32))>>,
            <<Plain("landingpad", "lp", LPtr(LInt(8)), <<>>, "")>> \o seq
              \o <<ResumeI(Ins("lp", LPtr(LInt(8))))>> >>)} :
         seq \in PredicateSequences}

(* a block of two comparisons and a branch that loops on itself *)
SelfLoopFunction ==
  Function(<<
    <<Br(2)>>,
    <<Plain("cmp", "c3", I1, <<X, Cst(0, I32)>>, "eq"),
      Plain("cmp", "k", I1, <<X, Cst(5, I32)>>, "slt"),
      CondBr(Ins("k", I1), 2, 3)>>,
    <<RetI(X)>> >>)

Scenarios ==
  {SwapFunction, InvokeFunction, IntrinsicFunction, SharedConditionFunction,
   InvokeAfterComparisonFunction, SelectFunction,
   SharedConditionAfterLoadFunction, SelfLoopFunction}

Functions ==
  CFGFunctions \cup SequenceFunctions \cup Scenarios \cup WrapFunctions
    \cup ExitFunctions

-----------------------------------------------------------------------------
(* translate_body as a state machine *)

NoStep == [b |-> 0, i |-> 0, bt |-> NoTranslation, bbs |-> <<>>, vars |-> <<>>]

Init ==
  /\ fn \in Functions
  /\ addrFlip \in BOOLEAN
  /\ pc = "start"
  /\ err = ""
  /\ exc = "none"
  /\ special = [ret |-> 0, unr |-> 0, ehr |-> 0]
  /\ bbs = <<>>
  /\ slots = NoSlots
  /\ variables = <<>>
  /\ nvars = 0
  /\ blocks = <<>>
  /\ worklist = <<>>
  /\ cur = NoTranslation
  /\ idx = 0
  /\ todo = <<>>
  /\ last = NoStep

(* what the build makes of an exception: an ImportError propagates, a      *)
(* failed assertion aborts where assertions are compiled in and is          *)
(* undefined behaviour where they are not                                   *)
Outcomes(ex) ==
  IF ex = "assert" THEN {"assert", "undefined"} ELSE {ex}

(* translate_body: mark_special_blocks() *)
MarkSpecialBlocks ==
  /\ pc = "start" /\ exc = "none"
  /\ LET r == mark_special_blocks(fn)
     IN /\ special' = [ret |-> r.ret, unr |-> r.unr, ehr |-> r.ehr]
        /\ exc' = r.ex
        /\ err' = r.msg
        /\ pc' = IF r.ex = "none" THEN "params" ELSE pc
  /\ UNCHANGED <<fn, addrFlip, bbs, slots, variables, nvars, blocks, worklist,
                 cur, idx, todo, last>>

(* translate_body: translate_parameters(), then translate_basic_blocks()   *)
(* pushes the entry block                                                   *)
TranslateParameters ==
  /\ pc = "params" /\ exc = "none"
  /\ variables' = translate_parameters(fn)
  /\ worklist' = <<EntryBlock(fn)>>
  /\ pc' = "blocks"
  /\ UNCHANGED <<fn, addrFlip, err, exc, special, bbs, slots, nvars, blocks,
                 cur, idx, todo, last>>

(* translate_basic_blocks: the front block is already translated *)
SkipBasicBlock ==
  /\ pc = "blocks" /\ exc = "none"
  /\ worklist # <<>>
  /\ Head(worklist) \in DOMAIN blocks
  /\ worklist' = Tail(worklist)
  /\ UNCHANGED <<fn, addrFlip, pc, err, exc, special, bbs, slots, variables,
                 nvars, blocks, cur, idx, todo, last>>

(* translate_basic_block: the main block and the BasicBlockTranslation *)
BeginBasicBlock ==
  /\ pc = "blocks" /\ exc = "none"
  /\ worklist # <<>>
  /\ Head(worklist) \notin DOMAIN blocks
  /\ LET bb == Head(worklist)
         bt == NewTranslation(bb, Len(bbs) + 1)
     IN /\ bbs' = create_block(bbs)
        /\ cur' = bt
        /\ slots' = IF bb = EntryBlock(fn) THEN mark_entry_block(bt, slots)
                    ELSE slots
  /\ worklist' = Tail(worklist)
  /\ idx' = 1
  /\ pc' = "inst"
  /\ last' = NoStep
  /\ UNCHANGED <<fn, addrFlip, err, exc, special, variables, nvars, blocks, todo>>

(* the state translate_instruction leaves *)
InstructionTranslated(T) ==
  /\ bbs' = T.bbs
  /\ cur' = T.bt
  /\ variables' = T.vars
  /\ nvars' = T.nv
  /\ exc' \in Outcomes(T.ex)
  /\ err' = T.msg
  /\ idx' = IF Ok(T) THEN idx + 1 ELSE idx

(* translate_basic_block: translate_instruction on the next instruction *)
TranslateInstruction ==
  /\ pc = "inst" /\ exc = "none"
  /\ idx <= Len(fn.blocks[cur.source])
  /\ InstructionTranslated(
       translate_instruction(Ctx(bbs, cur, variables, nvars, addrFlip),
                             fn, cur.source, idx))
  /\ last' = [b |-> cur.source, i |-> idx, bt |-> cur, bbs |-> bbs,
              vars |-> variables]
  /\ UNCHANGED <<fn, addrFlip, pc, special, slots, blocks, worklist, todo>>

(* translate_basic_block: the exit/unreachable/ehresume blocks, the entry  *)
(* of _blocks; translate_basic_blocks: the successors join the worklist     *)
EndBasicBlock ==
  /\ pc = "inst" /\ exc = "none"
  /\ idx > Len(fn.blocks[cur.source])
  /\ LET S == MarkSpecial(cur, special, slots)
     IN /\ slots' = S.slots
        /\ exc' = S.ex
        /\ err' = S.msg
        /\ IF S.ex = "none"
           THEN /\ blocks' = Put(blocks, cur.source, cur)
                /\ worklist' = worklist \o Successors(fn, cur.source)
                /\ cur' = NoTranslation
                /\ pc' = "blocks"
           ELSE UNCHANGED <<blocks, worklist, cur, pc>>
  /\ last' = NoStep
  /\ UNCHANGED <<fn, addrFlip, special, bbs, variables, nvars, idx, todo>>

(* translate_control_flow_graph: translate_phi_nodes() starts *)
BeginPhiNodes ==
  /\ pc = "blocks" /\ exc = "none"
  /\ worklist = <<>>
  /\ todo' = TranslatedBlocks(fn, blocks)
  /\ pc' = "phis"
  /\ UNCHANGED <<fn, addrFlip, err, exc, special, bbs, slots, variables, nvars,
                 blocks, worklist, cur, idx, last>>

(* the state translate_phi_nodes(bb_translation, bb) leaves *)
PhiNodesTranslated(T) ==
  /\ bbs' = T.bbs
  /\ blocks' = [blocks EXCEPT ![Head(todo)] = T.bt]
  /\ variables' = T.vars
  /\ nvars' = T.nv
  /\ exc' \in Outcomes(T.ex)
  /\ err' = T.msg
  /\ todo' = IF Ok(T) THEN Tail(todo) ELSE todo

(* translate_phi_nodes(bb_translation, bb) on the next translated block *)
TranslatePhiNodes ==
  /\ pc = "phis" /\ exc = "none"
  /\ todo # <<>>
  /\ PhiNodesTranslated(
       translate_phi_nodes(Ctx(bbs, blocks[Head(todo)], variables, nvars, addrFlip),
                           fn, Head(todo), 1))
  /\ UNCHANGED <<fn, addrFlip, pc, special, slots, worklist, cur, idx, last>>

(* translate_control_flow_graph: link_basic_blocks() starts *)
BeginLink ==
  /\ pc = "phis" /\ exc = "none"
  /\ todo = <<>>
  /\ todo' = TranslatedBlocks(fn, blocks)
  /\ pc' = "link"
  /\ UNCHANGED <<fn, addrFlip, err, exc, special, bbs, slots, variables, nvars,
                 blocks, worklist, cur, idx, last>>

(* the state link_basic_block leaves *)
BasicBlockLinked(R) ==
  /\ bbs' = R.bbs
  /\ exc' \in Outcomes(R.ex)
  /\ err' = R.msg
  /\ todo' = IF R.ex = "none" THEN Tail(todo) ELSE todo

(* link_basic_block on the next translated block *)
LinkBasicBlock ==
  /\ pc = "link" /\ exc = "none"
  /\ todo # <<>>
  /\ BasicBlockLinked(
       link_basic_block([bbs |-> bbs, ex |-> "none", msg |-> ""],
                        blocks, blocks[Head(todo)], 1))
  /\ UNCHANGED <<fn, addrFlip, pc, special, slots, variables, nvars, blocks,
                 worklist, cur, idx, last>>

(* translate_body returns the code *)
ReturnBody ==
  /\ pc = "link" /\ exc = "none"
  /\ todo = <<>>
  /\ pc' = "done"
  /\ UNCHANGED <<fn, addrFlip, err, exc, special, bbs, slots, variables, nvars,
                 blocks, worklist, cur, idx, todo, last>>

Next ==
  \/ MarkSpecialBlocks
  \/ TranslateParameters
  \/ SkipBasicBlock
  \/ BeginBasicBlock
  \/ TranslateInstruction
  \/ EndBasicBlock
  \/ BeginPhiNodes
  \/ TranslatePhiNodes
  \/ BeginLink
  \/ LinkBasicBlock
  \/ ReturnBody

Spec == Init /\ [][Next]_vars

-----------------------------------------------------------------------------
(* Properties *)

(* the successors of each block of f *)
SuccMap(f) == [b \in DOMAIN f.blocks |-> Successors(f, b)]

(* the blocks of the imported function reachable from its entry block *)
Live == Reachable(SuccMap(fn))

(* the block and index at which instruction value n is defined *)
DefSites(f, n) ==
  UNION {{<<b, i>> : i \in {j \in DOMAIN f.blocks[b] : f.blocks[b][j].res = n}} :
           b \in DOMAIN f.blocks}

(* every non-PHI use of an instruction value is dominated by its definition *)
DefsDominateUses(f) ==
  \A b \in Reachable(SuccMap(f)) : \A i \in DOMAIN f.blocks[b] :
    f.blocks[b][i].op # "phi" =>
      \A k \in DOMAIN f.blocks[b][i].args :
        f.blocks[b][i].args[k].k = "inst" =>
          \E d \in DefSites(f, f.blocks[b][i].args[k].n) :
            \/ d[1] = b /\ d[2] < i
            \/ Dominates(SuccMap(f), d[1], b)

(* mark_special_blocks has run *)
Marked == pc # "start" \/ exc # "none"

(* mark_special_blocks raised *)
MarkRaised == pc = "start" /\ exc = "ImportError"

(* C1: translate_body raises ImportError exactly when the function has more *)
(* than one return block (message "more than one exit block"), more than    *)
(* one unreachable block or more than one resume block; with at most one of *)
(* each mark_special_blocks does not raise; and when it raises, no AIR      *)
(* block has been created and no value-to-variable mapping recorded.        *)
C1_SpecialBlocksChecked ==
  Marked =>
    LET r == Cardinality(TerminatedBy(fn, "ret"))
        u == Cardinality(TerminatedBy(fn, "unreachable"))
        e == Cardinality(TerminatedBy(fn, "resume"))
    IN /\ MarkRaised <=> (r > 1 \/ u > 1 \/ e > 1)
       /\ r > 1 => err = MoreThanOneExit
       /\ (r <= 1 /\ u > 1) => err = MoreThanOneUnreachable
       /\ (r <= 1 /\ u <= 1 /\ e > 1) => err = MoreThanOneEhresume
       /\ MarkRaised =>
            /\ bbs = <<>> /\ variables = <<>> /\ blocks = <<>> /\ nvars = 0
            /\ slots = NoSlots

(* a function with two return blocks has been refused *)
C1_Witness == MarkRaised /\ err = MoreThanOneExit /\ bbs = <<>>

(* the AIR block a slot must hold: the only output of the translation of   *)
(* the live block with that terminator, none (0) when no live block has it  *)
ExpectedSlot(op) ==
  IF TerminatedBy(fn, op) \cap Live = {} THEN 0
  ELSE blocks[FirstOf(TerminatedBy(fn, op) \cap Live)].outputs[1].block

(* C2 as stated: after translate_body returns, the exit slot is set if and  *)
(* only if the function has a block terminated by return, likewise the      *)
(* unreachable and ehresume slots, whether or not that block is reachable   *)
(* from the entry block.                                                    *)
C2_SlotsIffTerminator ==
  pc = "done" =>
    /\ slots.exit # 0 <=> TerminatedBy(fn, "ret") # {}
    /\ slots.unreachable # 0 <=> TerminatedBy(fn, "unreachable") # {}
    /\ slots.ehresume # 0 <=> TerminatedBy(fn, "resume") # {}

(* C2 amended: after translate_body returns, the exit slot is set, to the   *)
(* single output block of that block's translation, if and only if the      *)
(* function has a block terminated by return that is reachable from the     *)
(* entry block; likewise the unreachable and ehresume slots.                *)
C2_SlotsIffLiveTerminator ==
  pc = "done" =>
    /\ slots.exit = ExpectedSlot("ret")
    /\ slots.unreachable = ExpectedSlot("unreachable")
    /\ slots.ehresume = ExpectedSlot("resume")
    /\ \A op \in {"ret", "unreachable", "resume"} :
         ExpectedSlot(op) \in 0..Len(bbs)
         /\ (ExpectedSlot(op) # 0 <=> TerminatedBy(fn, op) \cap Live # {})

(* a function with a live return block and a dead unreachable block is     *)
(* translated: the exit slot is set, the unreachable slot is not            *)
C2_Witness ==
  /\ pc = "done"
  /\ slots.exit # 0
  /\ TerminatedBy(fn, "unreachable") # {}
  /\ TerminatedBy(fn, "unreachable") \cap Live = {}
  /\ slots.unreachable = 0

(* the instruction translate_instruction is about to translate *)
AtInstruction ==
  pc = "inst" /\ exc = "none" /\ idx <= Len(fn.blocks[cur.source])

NextInstruction == fn.blocks[cur.source][idx]

(* C3: when each definition dominates its non-PHI uses, every instruction  *)
(* or parameter operand of a non-PHI instruction is already in the          *)
(* value-to-variable map when the instruction is translated, and the        *)
(* "value hasn't been translated yet" assertion is never reached while the  *)
(* blocks are translated.                                                   *)
C3_OperandsTranslated ==
  DefsDominateUses(fn) =>
    /\ (AtInstruction /\ NextInstruction.op # "phi") =>
         \A k \in DOMAIN NextInstruction.args :
            NextInstruction.args[k].k \in {"inst", "arg"} =>
              NextInstruction.args[k].n \in DOMAIN variables
    /\ pc = "inst" => err # "value hasn't been translated yet"

(* a non-PHI instruction with an operand defined in another block is about *)
(* to be translated, and the operand is in the map                          *)
C3_Witness ==
  /\ AtInstruction
  /\ DefsDominateUses(fn)
  /\ NextInstruction.op # "phi"
  /\ \E k \in DOMAIN NextInstruction.args :
       /\ NextInstruction.args[k].k = "inst"
       /\ ~Defined(fn.blocks[cur.source], NextInstruction.args[k].n)
       /\ NextInstruction.args[k].n \in DOMAIN variables

(* the PHIs of block b *)
Phis(f, b) == SelectSeq(f.blocks[b], LAMBDA inst : inst.op = "phi")

(* C4 as stated: when the deferred pass processes the PHIs of a translated *)
(* block, every incoming value that is an instruction or a parameter is in  *)
(* the value-to-variable map, for every incoming pair, including the pairs  *)
(* whose predecessor is not reachable from the entry block.                 *)
C4_IncomingValuesTranslated ==
  (pc = "phis" /\ exc = "none" /\ todo # <<>>) =>
    \A j \in DOMAIN Phis(fn, Head(todo)) :
      \A k \in DOMAIN Phis(fn, Head(todo))[j].args :
        Phis(fn, Head(todo))[j].args[k].k \in {"inst", "arg"} =>
          Phis(fn, Head(todo))[j].args[k].n \in DOMAIN variables

(* the value of AIR operand v after the first k - 1 statements of st, in   *)
(* terms of the values on entry to the block; a Bitcast keeps the value     *)
RECURSIVE ValueBefore(_, _, _)
ValueBefore(st, k, v) ==
  IF v.vk # "var" THEN <<"constant", v.id>>
  ELSE LET writes == {j \in 1..(k - 1) : st[j].res = v}
       IN IF writes = {} THEN <<"on entry", v.id>>
          ELSE LET j == CHOOSE x \in writes : \A y \in writes : y <= x
               IN ValueBefore(st, j, st[j].ops[1])

(* the AIR operand of an incoming value of a PHI *)
IncomingOperand(v) ==
  IF v.k = "cst" THEN Const(v.val, NullT) ELSE variables[v.n]

(* C5 as stated: for every translated block with PHIs and every            *)
(* predecessor P, executing the statements of the input landing block of P  *)
(* in order leaves each PHI result variable equal to the value its          *)
(* incoming operand for P had on entry to the landing block.                *)
C5_PhiSemanticsPreserved ==
  pc = "done" =>
    \A b \in DOMAIN blocks : \A j \in DOMAIN Phis(fn, b) :
      \A k \in DOMAIN Phis(fn, b)[j].args :
        LET phi == Phis(fn, b)[j]
            st == bbs[blocks[b].inputs[phi.succs[k]]].stmts
        IN ValueBefore(st, Len(st) + 1, variables[phi.res])
             = ValueBefore(st, 1, IncomingOperand(phi.args[k]))

IsBitcast(s) == s.k = "unop" /\ s.info.op = "Bitcast"

(* C6 as stated: no Bitcast statement is emitted whose operand and result  *)
(* types are other than (pointer, pointer) or (integer, integer of the      *)
(* same bit-width), on any path, translate_bitcast included.                *)
C6_BitcastsValid ==
  \A b \in DOMAIN bbs : \A j \in DOMAIN bbs[b].stmts :
    IsBitcast(bbs[b].stmts[j]) =>
      is_valid_bitcast(bbs[b].stmts[j].ops[1].ty, bbs[b].stmts[j].res.ty)

(* the step translate_instruction has just made *)
LastInst == fn.blocks[last.b][last.i]

AfterInstruction(op) == last.b # 0 /\ exc = "none" /\ LastInst.op = op

(* C7: add_comparison doubles the outputs: each prior output, in order,    *)
(* becomes an internal block whose only successors are two fresh blocks,    *)
(* the first holding cmp then var := 1, the second the inverse of cmp then  *)
(* var := 0; the new outputs are these blocks, true before false per        *)
(* parent, all without successor.                                           *)
C7_ComparisonDoublesOutputs ==
  AfterInstruction("cmp") =>
    LET n == Len(last.bt.outputs)
        nb == Len(last.bbs)
        var == variables[LastInst.res]
    IN /\ Len(cur.outputs) = 2 * n
       /\ Len(bbs) = nb + 2 * n
       /\ cur.internals = last.bt.internals \o OutputBlocks(last.bt)
       /\ \A i \in 1..n :
            LET parent == last.bt.outputs[i].block
                t == nb + 2 * i - 1
                e == nb + 2 * i
            IN /\ cur.outputs[2 * i - 1] = Out(t, 0)
               /\ cur.outputs[2 * i] = Out(e, 0)
               /\ last.bbs[parent].succs = <<>>
               /\ bbs[parent].succs = <<t, e>>
               /\ bbs[t].succs = <<>> /\ bbs[e].succs = <<>>
               /\ Len(bbs[t].stmts) = 2
               /\ bbs[t].stmts[1].k = "cmp"
               /\ bbs[t].stmts[1].fe = LastInst.res
               /\ bbs[t].stmts[2] = create_bool_assignment(var, TRUE, LastInst.res)
               /\ bbs[e].stmts = <<inverse(bbs[t].stmts[1]),
                                   create_bool_assignment(var, FALSE, LastInst.res)>>
               /\ inverse(bbs[e].stmts[1]) = bbs[t].stmts[1]
               /\ bbs[e].stmts[1] # bbs[t].stmts[1]

(* a comparison translated with two open outputs leaves four *)
C7_Witness ==
  /\ AfterInstruction("cmp")
  /\ Len(last.bt.outputs) = 2
  /\ Len(cur.outputs) = 4
  /\ Len(bbs) = Len(last.bbs) + 4

(* the incoming pairs (PHI j, pair k) of block b whose predecessor is P *)
IncomingPairs(f, b, pred) ==
  {jk \in UNION {{<<j, k>> : k \in DOMAIN Phis(f, b)[j].succs} :
                   j \in DOMAIN Phis(f, b)} :
     Phis(f, b)[jk[1]].succs[jk[2]] = pred}

(* the statement of one incoming pair is an Assignment between equal types *)
(* and a Bitcast between pointers or integers of equal width                *)
IncomingStatement(s) ==
  IF s.ops[1].ty = s.res.ty THEN s.k = "assign"
  ELSE IsBitcast(s) /\ is_valid_bitcast(s.ops[1].ty, s.res.ty)

(* once the deferred pass is over, each landing block holds exactly one    *)
(* statement per incoming pair of its predecessor                           *)
LandingBlocksComplete ==
  pc \in {"link", "done"} =>
    \A b \in DOMAIN blocks : \A pred \in DOMAIN fn.blocks :
      IncomingPairs(fn, b, pred) # {} =>
        /\ pred \in DOMAIN blocks[b].inputs
        /\ LET st == bbs[blocks[b].inputs[pred]].stmts
           IN /\ Len(st) = Cardinality(IncomingPairs(fn, b, pred))
              /\ \A jk \in IncomingPairs(fn, b, pred) :
                   \E x \in DOMAIN st :
                     /\ st[x].res = variables[Phis(fn, b)[jk[1]].res]
                     /\ st[x].fe = Phis(fn, b)[jk[1]].res
                     /\ IncomingStatement(st[x])

(* C8 as stated: for every PHI of a translated block and every incoming    *)
(* pair the deferred pass appends exactly one statement to the landing      *)
(* block of the predecessor, an Assignment or a Bitcast to the result       *)
(* variable of the PHI, and otherwise it raises ImportError.                *)
C8_OneStatementPerIncomingPair ==
  /\ LandingBlocksComplete
  /\ (pc = "phis" /\ exc # "none") => exc = "ImportError"

(* translate_instruction on the next instruction, the types allocated in   *)
(* one order or the other                                                   *)
NextTranslation(flip) ==
  translate_instruction(Ctx(bbs, cur, variables, nvars, flip),
                        fn, cur.source, idx)

(* C9 as stated: the translation of a function does not depend on the      *)
(* addresses of the AIR type objects: the same blocks, statements, edges    *)
(* and inferred types are produced whichever way the types are ordered.     *)
C9_IndependentOfAddresses ==
  AtInstruction =>
    /\ NextTranslation(TRUE).bbs = NextTranslation(FALSE).bbs
    /\ NextTranslation(TRUE).bt = NextTranslation(FALSE).bt
    /\ NextTranslation(TRUE).vars = NextTranslation(FALSE).vars
    /\ NextTranslation(TRUE).ex = NextTranslation(FALSE).ex

(* the conditional branch just translated took the fused case: its         *)
(* condition was translated and every open output ended with the            *)
(* assignment of an integer constant to it                                  *)
FusedCase ==
  /\ AfterInstruction("condbr")
  /\ LastInst.args[1].k \in {"inst", "arg"}
  /\ LastInst.args[1].n \in DOMAIN last.vars
  /\ \A i \in DOMAIN last.bt.outputs :
       EndsWithConstantAssignment(last.bbs, last.bt.outputs[i].block,
                                  last.vars[LastInst.args[1].n])

(* the branch is the only use of its condition *)
SingleUse == OnlyUsedBy(fn, LastInst.args[1].n, last.b, last.i)

(* the condition is the comparison immediately before the branch *)
CompareThenBranch ==
  /\ last.i > 1
  /\ fn.blocks[last.b][last.i - 1].op = "cmp"
  /\ fn.blocks[last.b][last.i - 1].res = LastInst.args[1].n

(* C10: in the fused case add_conditional_branching creates no block and   *)
(* keeps the number of outputs; each output gets the false successor when   *)
(* its constant is 0 and the true successor otherwise; when the branch is   *)
(* the only use of the condition the last assignment of every output is     *)
(* removed, so that after an icmp immediately followed by the branch each   *)
(* output holds only the comparison or its inverse.                         *)
C10_FusedConditionalBranch ==
  FusedCase =>
    /\ Len(bbs) = Len(last.bbs)
    /\ Len(cur.outputs) = Len(last.bt.outputs)
    /\ cur.internals = last.bt.internals
    /\ \A i \in DOMAIN last.bt.outputs :
         LET bb == last.bt.outputs[i].block
         IN /\ cur.outputs[i].block = bb
            /\ cur.outputs[i].succ =
                 IF Last(last.bbs[bb].stmts).ops[1].id = 0
                 THEN LastInst.succs[2] ELSE LastInst.succs[1]
            /\ bbs[bb].succs = last.bbs[bb].succs
            /\ SingleUse => bbs[bb].stmts = Front(last.bbs[bb].stmts)
            /\ (SingleUse /\ CompareThenBranch) =>
                 /\ Len(bbs[bb].stmts) = 1
                 /\ bbs[bb].stmts[1].k = "cmp"
                 /\ bbs[bb].stmts[1].fe = LastInst.args[1].n
    /\ ~SingleUse => bbs = last.bbs
    /\ (SingleUse /\ CompareThenBranch) =>
         \A i \in DOMAIN cur.outputs :
           i % 2 = 0 =>
             bbs[cur.outputs[i].block].stmts[1]
               = inverse(bbs[cur.outputs[i - 1].block].stmts[1])

(* an icmp immediately followed by the branch that is its only use has     *)
(* been translated: two outputs, each holding one comparison                *)
C10_Witness ==
  /\ FusedCase /\ SingleUse /\ CompareThenBranch
  /\ Len(cur.outputs) = 2
  /\ cur.outputs[1].succ = LastInst.succs[1]
  /\ cur.outputs[2].succ = LastInst.succs[2]
  /\ Len(bbs[cur.outputs[1].block].stmts) = 1

(* the scenario "icmp eq then branch, the condition used elsewhere": the   *)
(* branch has just been translated, with the comparison children as the     *)
(* open outputs                                                             *)
SharedConditionBranch ==
  /\ AfterInstruction("condbr")
  /\ LastInst.args[1].k = "inst"
  /\ CompareThenBranch
  /\ fn.blocks[last.b][last.i - 1].attr.opc = "eq"
  /\ ~SingleUse
  /\ Len(last.bt.outputs) = 2

(* the comparison children before the branch: the comparison then %c := 1, *)
(* the inverse comparison then %c := 0                                      *)
ComparisonChildren(B, outs, c) ==
  /\ Len(B[outs[1].block].stmts) = 2
  /\ Len(B[outs[2].block].stmts) = 2
  /\ B[outs[1].block].stmts[1].k = "cmp"
  /\ B[outs[1].block].stmts[1].info.op \in {"SIEQ", "UIEQ"}
  /\ B[outs[2].block].stmts[1] = inverse(B[outs[1].block].stmts[1])
  /\ B[outs[1].block].stmts[2] = create_bool_assignment(variables[c], TRUE, c)
  /\ B[outs[2].block].stmts[2] = create_bool_assignment(variables[c], FALSE, c)

(* C11 as stated: for `%c = icmp eq; br %c` with %c used elsewhere the     *)
(* comparison produces two children (comparison and %c := 1, inverse and    *)
(* %c := 0) and the branch then emits further children holding the          *)
(* comparisons %c == 1 and %c == 0, the assignments retained.               *)
C11_BranchAddsBoolComparisons ==
  SharedConditionBranch =>
    /\ ComparisonChildren(bbs, last.bt.outputs, LastInst.args[1].n)
    /\ Len(bbs) > Len(last.bbs)
    /\ \A i \in DOMAIN cur.outputs :
         /\ cur.outputs[i].block > Len(last.bbs)
         /\ Len(bbs[cur.outputs[i].block].stmts) = 1
         /\ bbs[cur.outputs[i].block].stmts[1].k = "cmp"
         /\ bbs[cur.outputs[i].block].stmts[1].ops[1]
              = variables[LastInst.args[1].n]

(* C11 amended: for `%c = icmp eq; br %c` with %c used elsewhere the       *)
(* comparison produces two children (comparison and %c := 1, inverse and    *)
(* %c := 0) and the branch emits no further block: it takes the fused case, *)
(* sets succ of the first child to the true successor and of the second to  *)
(* the false successor, and retains both assignments.                       *)
C11_BranchFusedAssignmentsRetained ==
  SharedConditionBranch =>
    /\ ComparisonChildren(bbs, last.bt.outputs, LastInst.args[1].n)
    /\ bbs = last.bbs
    /\ cur.internals = last.bt.internals
    /\ cur.outputs = <<Out(last.bt.outputs[1].block, LastInst.succs[1]),
                       Out(last.bt.outputs[2].block, LastInst.succs[2])>>

(* the branch of the scenario has been translated and the children still   *)
(* end with the assignments                                                 *)
C11_Witness ==
  /\ SharedConditionBranch
  /\ Len(cur.outputs) = 2
  /\ Last(bbs[cur.outputs[1].block].stmts).k = "assign"
  /\ Last(bbs[cur.outputs[2].block].stmts).k = "assign"

(* instruction j of block b is a comparison and the first one of the block *)
FirstComparisonAt(b, j) ==
  /\ j \in DOMAIN fn.blocks[b]
  /\ fn.blocks[b][j].op = "cmp"
  /\ \A x \in 1..(j - 1) : fn.blocks[b][x].op # "cmp"

(* the scenario `%c = icmp; load; br %c`: the load has just been translated *)
LoadAfterComparison ==
  /\ AfterInstruction("load")
  /\ FirstComparisonAt(last.b, last.i - 1)

(* the scenario `%c = icmp; load; br %c`: the branch has just been         *)
(* translated                                                               *)
BranchAfterLoad ==
  /\ AfterInstruction("condbr")
  /\ last.i > 2
  /\ fn.blocks[last.b][last.i - 1].op = "load"
  /\ FirstComparisonAt(last.b, last.i - 2)
  /\ LastInst.args[1] = Ins(fn.blocks[last.b][last.i - 2].res, I1)

(* the blocks of B that hold a Load statement *)
BlocksWithLoad(B) ==
  {b \in DOMAIN B : \E j \in DOMAIN B[b].stmts : B[b].stmts[j].k = "load"}

(* C12: for `%c = icmp; load; br %c, %t, %f` the comparison fans out to two *)
(* outputs; translating the load creates one merge block M, the single      *)
(* successor of both comparison children; the Load is appended to M only    *)
(* and M is the sole output before the branch; after the branch the outputs *)
(* are exactly two fresh children of M, with succ %t and %f.                *)
C12_LoadMergesBeforeBranch ==
  /\ LoadAfterComparison =>
       LET M == Len(last.bbs) + 1
       IN /\ Len(last.bt.outputs) = 2
          /\ last.bt.outputs[1].block # last.bt.outputs[2].block
          /\ Len(bbs) = M
          /\ cur.outputs = <<Out(M, 0)>>
          /\ cur.internals = last.bt.internals \o OutputBlocks(last.bt)
          /\ \A i \in 1..2 :
               /\ last.bbs[last.bt.outputs[i].block].succs = <<>>
               /\ bbs[last.bt.outputs[i].block].succs = <<M>>
               /\ bbs[last.bt.outputs[i].block].stmts
                    = last.bbs[last.bt.outputs[i].block].stmts
          /\ Last(bbs[M].stmts).k = "load"
          /\ Last(bbs[M].stmts).fe = LastInst.res
          /\ BlocksWithLoad(bbs) = {M}
  /\ BranchAfterLoad =>
       LET M == last.bt.outputs[1].block
           nb == Len(last.bbs)
       IN /\ Len(last.bt.outputs) = 1
          /\ BlocksWithLoad(last.bbs) = {M}
          /\ Len(bbs) = nb + 2
          /\ cur.outputs = <<Out(nb + 1, LastInst.succs[1]),
                             Out(nb + 2, LastInst.succs[2])>>
          /\ bbs[M].succs = <<nb + 1, nb + 2>>
          /\ Last(cur.internals) = M
          /\ BlocksWithLoad(bbs) = {M}

(* the branch of the scenario has been translated: two children of M *)
C12_Witness ==
  /\ BranchAfterLoad
  /\ Len(cur.outputs) = 2
  /\ bbs[last.bt.outputs[1].block].succs
       = <<cur.outputs[1].block, cur.outputs[2].block>>
  /\ Len(cur.internals) = 4

(* the block that was the only open output when add_invoke_branching ran:  *)
(* the open output before the invoke, or the block that merged several      *)
InvokeBlock ==
  IF Len(last.bt.outputs) = 1 THEN last.bt.outputs[1].block
  ELSE Len(last.bbs) + 1

(* C13: when add_invoke_branching runs there is exactly one open output    *)
(* and its last statement is the Invoke just emitted; afterwards that block *)
(* is in internals with exactly two successors N and E, fresh and distinct, *)
(* the outputs are (N, normal destination) and (E, unwind destination), and *)
(* the normal_dest and exception_dest of the Invoke are N and E, no longer  *)
(* the main block.                                                          *)
C13_InvokeBranching ==
  AfterInstruction("invoke") =>
    LET N == Len(bbs) - 1
        E == Len(bbs)
        invoke == Last(bbs[InvokeBlock].stmts)
    IN /\ Len(bbs) = Len(last.bbs) + 2 + (IF Len(last.bt.outputs) = 1 THEN 0 ELSE 1)
       /\ cur.internals
            = last.bt.internals
              \o (IF Len(last.bt.outputs) = 1 THEN <<>> ELSE OutputBlocks(last.bt))
              \o <<InvokeBlock>>
       /\ cur.outputs = <<Out(N, LastInst.succs[1]), Out(E, LastInst.succs[2])>>
       /\ N # E /\ N > Len(last.bbs) /\ E > Len(last.bbs)
       /\ N # InvokeBlock /\ E # InvokeBlock
       /\ bbs[InvokeBlock].succs = <<N, E>>
       /\ bbs[N] = EmptyBlock /\ bbs[E] = EmptyBlock
       /\ invoke.k = "invoke"
       /\ invoke.fe = LastInst.res
       /\ invoke.res = variables[LastInst.res]
       /\ invoke.info.nd = N /\ invoke.info.ed = E
       /\ invoke.info.nd # cur.main /\ invoke.info.ed # cur.main
       /\ \A b \in DOMAIN bbs : \A j \in DOMAIN bbs[b].stmts :
            bbs[b].stmts[j].k = "invoke" =>
              b = InvokeBlock /\ j = Len(bbs[b].stmts)

(* an invoke translated after a comparison had left two outputs: they were *)
(* merged and the merge block ends with the Invoke                          *)
C13_Witness ==
  /\ AfterInstruction("invoke")
  /\ Len(last.bt.outputs) = 2
  /\ Last(bbs[InvokeBlock].stmts).k = "invoke"
  /\ Last(bbs[InvokeBlock].stmts).info.nd = cur.outputs[1].block
  /\ Last(bbs[InvokeBlock].stmts).info.ed = cur.outputs[2].block

(* the AIR block an output of the translation of b must be linked to *)
LinkTarget(b, succ) ==
  IF DOMAIN blocks[succ].inputs = {} THEN blocks[succ].main
  ELSE blocks[succ].inputs[b]

(* the translated blocks link_basic_blocks has already linked *)
Linked ==
  IF pc = "done" THEN DOMAIN blocks
  ELSE IF pc = "link" THEN DOMAIN blocks \ Range(todo)
  ELSE {}

(* C14: link_basic_blocks adds for every output (block, succ) of every     *)
(* translated block B exactly one successor edge when succ is not null and  *)
(* none when it is null; the edge goes to the landing block the successor   *)
(* registered for B when the successor has landing blocks, to its main      *)
(* block otherwise; no output is linked to the main block of a block that   *)
(* has landing blocks, and the lookup of B in the inputs never fails.       *)
C14_OutputsLinked ==
  /\ pc = "link" => exc = "none"
  /\ pc \in {"link", "done"} =>
       \A b \in DOMAIN blocks : \A i \in DOMAIN blocks[b].outputs :
         LET o == blocks[b].outputs[i]
         IN IF o.succ = 0 \/ b \notin Linked
            THEN bbs[o.block].succs = <<>>
            ELSE /\ o.succ \in DOMAIN blocks
                 /\ DOMAIN blocks[o.succ].inputs # {}
                      => b \in DOMAIN blocks[o.succ].inputs
                 /\ bbs[o.block].succs = <<LinkTarget(b, o.succ)>>
                 /\ DOMAIN blocks[o.succ].inputs # {}
                      => /\ LinkTarget(b, o.succ) # blocks[o.succ].main
                         /\ bbs[LinkTarget(b, o.succ)].succs
                              = <<blocks[o.succ].main>>
  /\ pc = "done" =>
       \A t \in DOMAIN blocks :
         DOMAIN blocks[t].inputs # {} =>
           {a \in DOMAIN bbs : blocks[t].main \in Range(bbs[a].succs)}
             = {blocks[t].inputs[x] : x \in DOMAIN blocks[t].inputs}

(* a translated function in which an output is linked to a landing block   *)
(* and another to a main block                                              *)
C14_Witness ==
  /\ pc = "done"
  /\ \E b \in DOMAIN blocks : \E i \in DOMAIN blocks[b].outputs :
       /\ blocks[b].outputs[i].succ # 0
       /\ DOMAIN blocks[blocks[b].outputs[i].succ].inputs # {}
       /\ bbs[blocks[b].outputs[i].block].succs
            = <<blocks[blocks[b].outputs[i].succ].inputs[b]>>
  /\ \E b \in DOMAIN blocks : \E i \in DOMAIN blocks[b].outputs :
       /\ blocks[b].outputs[i].succ # 0
       /\ DOMAIN blocks[blocks[b].outputs[i].succ].inputs = {}
       /\ bbs[blocks[b].outputs[i].block].succs
            = <<blocks[blocks[b].outputs[i].succ].main>>

(* the edges of the LIR control-flow graph, read from the terminators *)
TerminatorSuccessors == [b \in DOMAIN fn.blocks |-> Last(fn.blocks[b]).succs]

(* translate_basic_blocks is over: it returned or an exception left it *)
BasicBlocksDone == pc \in {"phis", "link", "done"} \/ exc # "none"

(* what translate_basic_blocks guarantees while it runs and once it has    *)
(* returned                                                                 *)
BasicBlocksTranslatedOnce ==
  /\ pc = "inst" =>
       /\ cur.source \notin DOMAIN blocks
       /\ cur.source \in Reachable(TerminatorSuccessors)
       /\ \A b \in DOMAIN blocks : blocks[b].main # cur.main
       /\ (cur.source # EntryBlock(fn)) => EntryBlock(fn) \in DOMAIN blocks
  /\ \A b \in DOMAIN blocks :
       /\ blocks[b].source = b
       /\ blocks[b].main \in DOMAIN bbs
       /\ \A a \in DOMAIN blocks : a # b => blocks[a].main # blocks[b].main
  /\ (DOMAIN blocks # {} \/ pc = "inst") =>
       /\ slots.entry = 1
       /\ (IF EntryBlock(fn) \in DOMAIN blocks
           THEN blocks[EntryBlock(fn)].main ELSE cur.main) = 1
  /\ pc \in {"phis", "link", "done"} =>
       /\ DOMAIN blocks = Reachable(TerminatorSuccessors)
       /\ worklist = <<>>

(* what is left to do in translate_basic_blocks: the blocks without a      *)
(* translation, the length of the worklist, the instructions left in the    *)
(* block in translation; every step makes it smaller in the lexicographic   *)
(* order, so that the loop cannot run for ever                              *)
WorkLeft ==
  <<Cardinality(DOMAIN fn.blocks \ DOMAIN blocks),
    Len(worklist),
    IF pc = "inst" THEN Len(fn.blocks[cur.source]) + 2 - idx ELSE 0>>

LexLess(m, n) ==
  /\ \A k \in 1..3 : m[k] >= 0
  /\ \/ m[1] < n[1]
     \/ m[1] = n[1] /\ m[2] < n[2]
     \/ m[1] = n[1] /\ m[2] = n[2] /\ m[3] < n[3]

(* as long as translate_basic_blocks has not finished it has a step to make *)
BasicBlocksNotStuck ==
  /\ (pc = "blocks" /\ exc = "none" /\ worklist # <<>>) =>
       Head(worklist) \in DOMAIN fn.blocks
  /\ (pc = "inst" /\ exc = "none") =>
       idx \in 1..(Len(fn.blocks[cur.source]) + 1)

(* C15: for every finite control-flow graph, loops and self-loops          *)
(* included, translate_basic_blocks terminates; when it finishes the        *)
(* translated blocks are exactly the blocks reachable from the entry block, *)
(* each translated once with one main AIR block of its own, the entry block *)
(* first.                                                                   *)
C15_BasicBlocksTerminate ==
  /\ []BasicBlocksTranslatedOnce
  /\ []BasicBlocksNotStuck
  /\ [][(pc \in {"blocks", "inst"} /\ ~BasicBlocksDone) =>
         (BasicBlocksDone' \/ LexLess(WorkLeft', WorkLeft))]_vars

(* translate_basic_blocks has returned on a graph with a self-loop, a      *)
(* block with two predecessors and an unreachable block                     *)
C15_Witness ==
  /\ pc = "phis"
  /\ \E b \in DOMAIN blocks : b \in Range(TerminatorSuccessors[b])
  /\ DOMAIN blocks # DOMAIN fn.blocks
  /\ Cardinality(DOMAIN blocks) = 2

(* C16 as stated: whenever translate_body raises ImportError, in           *)
(* mark_special_blocks, on an unsupported instruction of a block visited    *)
(* after others or in the deferred PHI pass, the Code holds no AIR block,   *)
(* statement, slot or successor edge created by the aborted translation.    *)
C16_NoPartialOutput ==
  exc = "ImportError" => (bbs = <<>> /\ slots = NoSlots)

(* the blocks that existed before the last instruction and received        *)
(* statements from it                                                       *)
BlocksAppendedTo ==
  {b \in DOMAIN last.bbs : Len(bbs[b].stmts) > Len(last.bbs[b].stmts)}

(* the only open output at the moment the statements of the last           *)
(* instruction were appended: the open output before it, or the block that  *)
(* merged several                                                           *)
OpenOutput ==
  IF Len(last.bt.outputs) = 1 THEN last.bt.outputs[1].block
  ELSE Len(last.bbs) + 1

(* C17: for every instruction that is not a comparison, a binary operator  *)
(* or a branch there is exactly one open output when its statements are     *)
(* appended, whatever comparisons and binary operators came before in the   *)
(* block; statements are cloned into several outputs only while             *)
(* translating comparisons and binary operators.                            *)
C17_OneOutputUnlessPredicateLike ==
  /\ (last.b # 0 /\ exc = "none"
        /\ LastInst.op \notin {"cmp", "binop", "br", "condbr"}) =>
       /\ Len(last.bt.outputs) > 1 =>
            /\ Len(bbs) > Len(last.bbs)
            /\ \A i \in DOMAIN last.bt.outputs :
                 bbs[last.bt.outputs[i].block].succs = <<OpenOutput>>
       /\ \A b \in DOMAIN bbs :
            b # OpenOutput =>
              bbs[b].stmts = IF b \in DOMAIN last.bbs THEN last.bbs[b].stmts
                             ELSE <<>>
       /\ OpenOutput \in DOMAIN last.bbs =>
            SubSeq(bbs[OpenOutput].stmts, 1, Len(last.bbs[OpenOutput].stmts))
              = last.bbs[OpenOutput].stmts
  /\ (last.b # 0 /\ exc = "none" /\ Cardinality(BlocksAppendedTo) > 1) =>
       LastInst.op \in {"cmp", "binop"}

(* a call translated after a comparison had left two outputs: its          *)
(* statement is in the block that merged them                               *)
C17_Witness ==
  /\ AfterInstruction("call")
  /\ Len(last.bt.outputs) = 2
  /\ cur.outputs = <<Out(Len(last.bbs) + 1, 0)>>
  /\ bbs[Len(last.bbs) + 1].stmts # <<>>

(* a statement to append *)
ProbeStatement == Stmt("unreachable", NoVar, <<>>, NoInfo, "unreachable")

(* add_statement applied to the translation in progress *)
StatementAdded ==
  add_statement(Ctx(bbs, cur, variables, nvars, addrFlip), ProbeStatement)

(* the statements the last instruction appended to block b *)
Appended(b) ==
  SubSeq(bbs[b].stmts, Len(last.bbs[b].stmts) + 1, Len(bbs[b].stmts))

(* C18: add_statement(s) appends exactly one copy of s at the end of every *)
(* open output block and changes nothing else: outputs, internals, inputs,  *)
(* all successor edges and the statements of the other blocks are           *)
(* unchanged.                                                               *)
C18_AddStatementFrame ==
  /\ (pc = "inst" /\ exc = "none") =>
       /\ StatementAdded.bt = cur
       /\ StatementAdded.vars = variables
       /\ StatementAdded.nv = nvars
       /\ StatementAdded.ex = "none"
       /\ Len(StatementAdded.bbs) = Len(bbs)
       /\ \A b \in DOMAIN bbs :
            /\ StatementAdded.bbs[b].succs = bbs[b].succs
            /\ StatementAdded.bbs[b].stmts
                 = IF b \in Range(OutputBlocks(cur))
                   THEN Append(bbs[b].stmts, ProbeStatement)
                   ELSE bbs[b].stmts
  /\ AfterInstruction("binop") =>
       /\ cur = last.bt
       /\ Len(bbs) = Len(last.bbs)
       /\ \A b \in DOMAIN bbs :
            /\ bbs[b].succs = last.bbs[b].succs
            /\ b \notin Range(OutputBlocks(cur)) =>
                 bbs[b].stmts = last.bbs[b].stmts
            /\ b \in Range(OutputBlocks(cur)) =>
                 /\ bbs[b].stmts = last.bbs[b].stmts \o Appended(b)
                 /\ Appended(b) = Appended(cur.outputs[1].block)
                 /\ Appended(b) # <<>>
                 /\ Cardinality({j \in DOMAIN Appended(b) :
                                   Appended(b)[j].k = "binop"}) = 1

(* a binary operator translated with two open outputs: the same statements *)
(* were appended to both                                                    *)
C18_Witness ==
  /\ AfterInstruction("binop")
  /\ Len(cur.outputs) = 2
  /\ Appended(cur.outputs[1].block) # <<>>
  /\ Appended(cur.outputs[2].block) = Appended(cur.outputs[1].block)

(* merge_outputs applied to the translation in progress *)
OutputsMerged == merge_outputs(Ctx(bbs, cur, variables, nvars, addrFlip))

(* C19: merge_outputs with two or more outputs creates exactly one fresh   *)
(* block D, adds an edge from each prior output to D, moves the prior       *)
(* outputs to internals and sets outputs to [(D, null)]; with fewer than    *)
(* two outputs it changes nothing. At every call made by                    *)
(* translate_instruction each output has succ == null: the assertion of     *)
(* merge_outputs never fails.                                               *)
C19_MergeOutputs ==
  /\ err # "merge_outputs: it->succ == nullptr"
  /\ AtInstruction => \A i \in DOMAIN cur.outputs : cur.outputs[i].succ = 0
  /\ (AtInstruction /\ Len(cur.outputs) < 2) =>
       OutputsMerged = Ctx(bbs, cur, variables, nvars, addrFlip)
  /\ (AtInstruction /\ Len(cur.outputs) >= 2) =>
       LET D == Len(bbs) + 1
       IN /\ OutputsMerged.ex = "none"
          /\ OutputsMerged.vars = variables
          /\ Len(OutputsMerged.bbs) = D
          /\ OutputsMerged.bbs[D] = EmptyBlock
          /\ \A b \in DOMAIN bbs :
               /\ OutputsMerged.bbs[b].stmts = bbs[b].stmts
               /\ OutputsMerged.bbs[b].succs
                    = IF b \in Range(OutputBlocks(cur))
                      THEN Append(bbs[b].succs, D) ELSE bbs[b].succs
          /\ OutputsMerged.bt
               = [cur EXCEPT !.outputs = <<Out(D, 0)>>,
                             !.internals = @ \o OutputBlocks(cur)]
  /\ (last.b # 0 /\ exc = "none" /\ Len(last.bt.outputs) > 1
        /\ LastInst.op \notin {"cmp", "binop", "br", "condbr"}) =>
       LET D == Len(last.bbs) + 1
       IN /\ {b \in DOMAIN bbs : D \in Range(bbs[b].succs)}
               = Range(OutputBlocks(last.bt))
          /\ \A i \in DOMAIN last.bt.outputs :
               bbs[last.bt.outputs[i].block].succs = <<D>>
          /\ SubSeq(cur.internals, 1,
                    Len(last.bt.internals) + Len(last.bt.outputs))
               = last.bt.internals \o OutputBlocks(last.bt)

(* a store translated after a comparison had left two outputs: they were   *)
(* merged into one fresh block                                              *)
C19_Witness ==
  /\ AfterInstruction("store")
  /\ Len(last.bt.outputs) = 2
  /\ cur.outputs = <<Out(Len(last.bbs) + 1, 0)>>
  /\ cur.internals = last.bt.internals \o OutputBlocks(last.bt)

(* the conditional branch just translated did not take the fused case:    *)
(* some open output did not end with the assignment of an integer constant  *)
(* to the condition variable                                                *)
UnfusedCase ==
  /\ AfterInstruction("condbr")
  /\ LastInst.args[1].k \in {"inst", "arg"}
  /\ LastInst.args[1].n \in DOMAIN last.vars
  /\ \E i \in DOMAIN last.bt.outputs :
       ~EndsWithConstantAssignment(last.bbs, last.bt.outputs[i].block,
                                   last.vars[LastInst.args[1].n])

(* s is the comparison `cond == value` *)
IsBoolComparison(s, cond, value) ==
  /\ s.k = "cmp"
  /\ s.info.op = (IF cond.ty.s = Signed THEN "SIEQ" ELSE "UIEQ")
  /\ s.ops = <<cond, [vk |-> "cst", id |-> value, ty |-> cond.ty]>>

(* the statements of a child of an unfused branch *)
UnfusedChild(b, value) ==
  IF SingleUse THEN bbs[b].stmts = <<>>
  ELSE /\ Len(bbs[b].stmts) = 1
       /\ IsBoolComparison(bbs[b].stmts[1], variables[LastInst.args[1].n], value)

(* C20: when some open output does not end with an assignment of an        *)
(* integer constant to the condition variable, add_conditional_branching    *)
(* moves every prior output to internals and gives it exactly two fresh     *)
(* children, the first with the true successor and the second with the      *)
(* false successor; each child holds the single comparison cond == 1        *)
(* (resp. cond == 0) when the condition has another use, and no statement   *)
(* when the branch is its only use.                                         *)
C20_UnfusedConditionalBranch ==
  UnfusedCase =>
    LET n == Len(last.bt.outputs)
        nb == Len(last.bbs)
    IN /\ Len(cur.outputs) = 2 * n
       /\ Len(bbs) = nb + 2 * n
       /\ cur.internals = last.bt.internals \o OutputBlocks(last.bt)
       /\ \A b \in DOMAIN last.bbs : bbs[b].stmts = last.bbs[b].stmts
       /\ \A i \in 1..n :
            LET parent == last.bt.outputs[i].block
                t == nb + 2 * i - 1
                e == nb + 2 * i
            IN /\ cur.outputs[2 * i - 1] = Out(t, LastInst.succs[1])
               /\ cur.outputs[2 * i] = Out(e, LastInst.succs[2])
               /\ bbs[parent].succs = last.bbs[parent].succs \o <<t, e>>
               /\ last.bbs[parent].succs = <<>>
               /\ bbs[t].succs = <<>> /\ bbs[e].succs = <<>>
               /\ UnfusedChild(t, 1)
               /\ UnfusedChild(e, 0)

(* an unfused branch on a condition used elsewhere: two children holding   *)
(* the comparisons of the condition with 1 and 0                            *)
C20_Witness ==
  /\ UnfusedCase /\ ~SingleUse
  /\ Len(cur.outputs) = 2
  /\ Len(bbs[cur.outputs[1].block].stmts) = 1
  /\ bbs[cur.outputs[1].block].stmts[1].ops[2].id = 1
  /\ bbs[cur.outputs[2].block].stmts[1].ops[2].id = 0

(* the context in which the deferred pass calls input_basic_block on the   *)
(* translation of block b                                                   *)
InputContext(b) == Ctx(bbs, blocks[b], variables, nvars, addrFlip)

(* the first call of input_basic_block for predecessor p: one new block,   *)
(* whose only edge goes to main, recorded in inputs; nothing else changes   *)
FirstInputCall(T, T1, p) ==
  /\ Len(T1.bbs) = Len(T.bbs) + 1
  /\ T1.ret = Len(T.bbs) + 1
  /\ T1.bbs[T1.ret] = [stmts |-> <<>>, succs |-> <<T.bt.main>>]
  /\ \A k \in DOMAIN T.bbs : T1.bbs[k] = T.bbs[k]
  /\ DOMAIN T1.bt.inputs = DOMAIN T.bt.inputs \cup {p}
  /\ T1.bt.inputs[p] = T1.ret
  /\ \A r \in DOMAIN T.bt.inputs : T1.bt.inputs[r] = T.bt.inputs[r]
  /\ T1.bt.outputs = T.bt.outputs
  /\ T1.bt.internals = T.bt.internals
  /\ T1.bt.main = T.bt.main

(* a later call of input_basic_block for predecessor p: the recorded block, *)
(* no block and no edge created                                              *)
LaterInputCall(T, T1, p) ==
  /\ T1.ret = T.bt.inputs[p]
  /\ T1.bbs = T.bbs
  /\ T1.bt = T.bt

(* C21: input_basic_block(pred) is idempotent: the first call for a        *)
(* predecessor creates one block with exactly one successor edge, into      *)
(* main, and records it in inputs; every later call with the same           *)
(* predecessor returns that same block and creates no block and no edge;    *)
(* calls with distinct predecessors return distinct blocks.                 *)
C21_InputBasicBlockIdempotent ==
  \A b \in DOMAIN blocks : \A p \in DOMAIN fn.blocks :
    LET T == InputContext(b)
        T1 == input_basic_block(T, p)
        T2 == input_basic_block(T1, p)
    IN /\ IF p \in DOMAIN T.bt.inputs THEN LaterInputCall(T, T1, p)
          ELSE FirstInputCall(T, T1, p)
       /\ LaterInputCall(T1, T2, p)
       /\ T2.ret = T1.ret
       /\ \A q \in DOMAIN fn.blocks \ {p} :
            /\ input_basic_block(T1, q).ret # T1.ret
            /\ input_basic_block(T2, q).ret # T2.ret

(* the deferred pass has called input_basic_block several times for each   *)
(* of two predecessors of a block with two PHIs                             *)
C21_Witness ==
  /\ pc = "link"
  /\ \E b \in DOMAIN blocks :
       /\ Len(Phis(fn, b)) = 2
       /\ Cardinality(DOMAIN blocks[b].inputs) = 2
       /\ \A p \in DOMAIN blocks[b].inputs :
            /\ Len(bbs[blocks[b].inputs[p]].stmts) = 2
            /\ bbs[blocks[b].inputs[p]].succs = <<blocks[b].main>>

(* the position of the first non-ignored hint of type t *)
FirstHint(hs, t) ==
  CHOOSE j \in DOMAIN hs :
    /\ ~hs[j].ig /\ hs[j].ty = t
    /\ \A x \in DOMAIN hs : (~hs[x].ig /\ hs[x].ty = t) => j <= x

(* the type with the greatest summed score, the earliest inserted of them  *)
(* on a tie                                                                 *)
FirstGreatest(hs) ==
  CHOOSE t \in HintedTypes(hs) :
    \A u \in HintedTypes(hs) :
       \/ SumScores(hs, u, 1) < SumScores(hs, t, 1)
       \/ /\ SumScores(hs, u, 1) = SumScores(hs, t, 1)
          /\ FirstHint(hs, t) <= FirstHint(hs, u)

(* the next instruction defines a value whose type infer_type selects from *)
(* the hints of its uses                                                    *)
TypeInferred ==
  /\ AtInstruction
  /\ NextInstruction.res # NoRes
  /\ FirstError(HintsOf(Ctx(bbs, cur, variables, nvars, addrFlip), fn,
                        NextInstruction.res)) = ""

(* C22 as stated: the scores of the non-ignored hints are summed per type  *)
(* over the uses of the value, the type with the greatest summed score is   *)
(* returned, infer_default_type is used only when there is no non-ignored   *)
(* hint, and on a tie the type whose first hint was inserted first is       *)
(* returned.                                                                *)
C22_HintSelection ==
  TypeInferred =>
    LET T == Ctx(bbs, cur, variables, nvars, addrFlip)
        hs == HintsOf(T, fn, NextInstruction.res)
    IN infer_type(T, fn, NextInstruction).ret =
         IF HintedTypes(hs) = {} THEN infer_default_type(fn, NextInstruction)
         ELSE FirstGreatest(hs)

(* the last instruction translated is an integer add, sub or mul *)
WrapOperator ==
  /\ AfterInstruction("binop")
  /\ LastInst.attr.opc \in {"add", "sub", "mul"}
  /\ LastInst.ty.k = "int"

(* the sign the wrap flags stand for *)
WrapSign(nsw, nuw) ==
  CASE nuw /\ ~nsw -> Unsigned
    [] nsw /\ ~nuw -> Signed
    [] nsw /\ nuw -> Signed
    [] ~nsw /\ ~nuw -> Unsigned

(* the BinaryOperation statements the last instruction appended *)
WrapStatements ==
  UNION {{Appended(b)[j] : j \in {x \in DOMAIN Appended(b) :
                                    Appended(b)[x].k = "binop"}} :
           b \in Range(OutputBlocks(cur))}

(* C23: for an add/sub/mul the sign is unsigned when only nuw is set,      *)
(* signed when only nsw is set, signed when both are set and unsigned when  *)
(* neither is set; that sign decides both the variant of the emitted        *)
(* BinaryOperation and the sign of the type hint given to the operands of   *)
(* the instruction, and the no_wrap flag of the statement is nsw OR nuw.    *)
C23_SignFromWraps ==
  WrapOperator =>
    LET sign == WrapSign(LastInst.attr.nsw, LastInst.attr.nuw)
        type == [k |-> "int", w |-> LastInst.ty.w, s |-> sign]
    IN /\ WrapStatements # {}
       /\ \A s \in WrapStatements :
            /\ s.info.op \in (IF sign = Unsigned THEN {"UAdd", "USub", "UMul"}
                              ELSE {"SAdd", "SSub", "SMul"})
            /\ s.info.op = convert_int_bin_op(LastInst.attr.opc, sign)
            /\ s.info.nw = (LastInst.attr.nsw \/ LastInst.attr.nuw)
            /\ s.res.ty = type
            /\ s.ops[1].ty = type
            /\ s.ops[2].ty = type
       /\ \A no \in DOMAIN LastInst.args :
            /\ infer_type_hint_use_binary_operator(LastInst, no)
                 = TypeHint(type, 5)
            /\ (LastInst.args[no].k = "inst"
                  /\ OnlyUsedBy(fn, LastInst.args[no].n, last.b, last.i)) =>
                 last.vars[LastInst.args[no].n].ty = type

(* a mul with both nsw and nuw translated: a signed, no-wrap operation on  *)
(* an operand inferred signed from this use                                 *)
C23_Witness ==
  /\ WrapOperator
  /\ LastInst.attr.nsw /\ LastInst.attr.nuw
  /\ LastInst.attr.opc = "mul"
  /\ \E s \in WrapStatements : s.info.op = "SMul" /\ s.info.nw
  /\ last.vars["l"].ty.s = Signed

(* the statement a return, unreachable or resume instruction becomes *)
ExitStatement(op) ==
  CASE op = "ret" -> "return"
    [] op = "unreachable" -> "unreachable"
    [] op = "resume" -> "resume"

(* the slot of the code a return, unreachable or resume block is stamped in *)
ExitSlot(S, op) ==
  CASE op = "ret" -> S.exit
    [] op = "unreachable" -> S.unreachable
    [] op = "resume" -> S.ehresume

ExitTerminated(b) ==
  Terminator(fn, b).op \in {"ret", "unreachable", "resume"}

(* translate_basic_block has translated the instructions of the block and  *)
(* is about to mark it                                                      *)
AtMarking ==
  pc = "inst" /\ exc = "none" /\ idx > Len(fn.blocks[cur.source])

(* the translation bt of a block ended by op has one output, closed by the *)
(* statement of op, without successor                                       *)
SoleExitOutput(bt, op) ==
  /\ Len(bt.outputs) = 1
  /\ bt.outputs[1].succ = 0
  /\ bbs[bt.outputs[1].block].stmts # <<>>
  /\ Last(bbs[bt.outputs[1].block].stmts).k = ExitStatement(op)
  /\ bbs[bt.outputs[1].block].succs = <<>>

(* C24: for every translated block terminated by return, unreachable or    *)
(* resume, the translation has exactly one output when mark_exit_block /    *)
(* mark_unreachable_block / mark_ehresume_block runs, whatever comparisons  *)
(* and binary operators precede the terminator (the 'more than one output'  *)
(* check never raises); the block stamped into the slot is that sole        *)
(* output, it is the block whose last statement is the ReturnValue /        *)
(* Unreachable / Resume statement, and it has no successor edge after       *)
(* link_basic_blocks.                                                       *)
C24_SoleOutputOfExitBlocks ==
  /\ err \notin {"exit block has more than one output",
                 "unreachable block has more than one output",
                 "ehresume block has more than one output"}
  /\ (AtMarking /\ ExitTerminated(cur.source)) =>
       /\ SoleExitOutput(cur, Terminator(fn, cur.source).op)
       /\ MarkSpecial(cur, special, slots).ex = "none"
       /\ ExitSlot(MarkSpecial(cur, special, slots).slots,
                   Terminator(fn, cur.source).op) = cur.outputs[1].block
  /\ \A b \in DOMAIN blocks :
       ExitTerminated(b) =>
         /\ SoleExitOutput(blocks[b], Terminator(fn, b).op)
         /\ ExitSlot(slots, Terminator(fn, b).op) = blocks[b].outputs[1].block

(* a return after a comparison, once the blocks are linked: the exit block *)
(* is the block that merged the outputs of the comparison                   *)
C24_Witness ==
  /\ pc = "done"
  /\ \E b \in DOMAIN blocks :
       /\ Terminator(fn, b).op = "ret"
       /\ Len(blocks[b].internals) >= 3
       /\ slots.exit = blocks[b].outputs[1].block
       /\ slots.exit # blocks[b].main
       /\ Last(bbs[slots.exit].stmts).k = "return"
       /\ bbs[slots.exit].succs = <<>>

(* inst is a conditional branch on an integer constant *)
IsConstantBranch(inst) == inst.op = "condbr" /\ inst.args[1].k = "cst"

(* the successor a branch on a constant selects, and the other one *)
SelectedSuccessor(inst) == inst.succs[IF inst.args[1].val # 0 THEN 1 ELSE 2]

OtherSuccessor(inst) == inst.succs[IF inst.args[1].val # 0 THEN 2 ELSE 1]

(* the AIR blocks through which the translation of block b is entered *)
EntryBlocksOf(b) ==
  {blocks[b].main} \cup {blocks[b].inputs[p] : p \in DOMAIN blocks[b].inputs}

(* C25: a conditional branch whose condition is an integer constant is     *)
(* reduced to an unconditional branch: every open output gets the first     *)
(* successor when the constant is not zero and the second when it is zero,  *)
(* no block is created, and after linking no output of the block has an     *)
(* edge towards the other successor, although the other successor is        *)
(* translated, every successor of the block being pushed on the worklist.   *)
C25_ConstantConditionBranch ==
  /\ (last.b # 0 /\ exc = "none" /\ IsConstantBranch(LastInst)) =>
       /\ bbs = last.bbs
       /\ cur.internals = last.bt.internals
       /\ cur.inputs = last.bt.inputs
       /\ Len(cur.outputs) = Len(last.bt.outputs)
       /\ \A i \in DOMAIN cur.outputs :
            cur.outputs[i] = Out(last.bt.outputs[i].block,
                                 SelectedSuccessor(LastInst))
  /\ pc \in {"phis", "link", "done"} =>
       \A b \in DOMAIN blocks :
         IsConstantBranch(Terminator(fn, b)) =>
           /\ SelectedSuccessor(Terminator(fn, b)) \in DOMAIN blocks
           /\ OtherSuccessor(Terminator(fn, b)) \in DOMAIN blocks
           /\ \A i \in DOMAIN blocks[b].outputs :
                /\ blocks[b].outputs[i].succ = SelectedSuccessor(Terminator(fn, b))
                /\ pc = "done" =>
                     /\ Cardinality(Range(bbs[blocks[b].outputs[i].block].succs)) = 1
                     /\ Range(bbs[blocks[b].outputs[i].block].succs)
                          \subseteq EntryBlocksOf(SelectedSuccessor(Terminator(fn, b)))
                     /\ OtherSuccessor(Terminator(fn, b))
                          # SelectedSuccessor(Terminator(fn, b)) =>
                          Range(bbs[blocks[b].outputs[i].block].succs)
                            \cap EntryBlocksOf(OtherSuccessor(Terminator(fn, b))) = {}

(* a branch on the constant 0 after a comparison, once linked: both        *)
(* outputs go to the second successor and the first one is translated       *)
C25_Witness ==
  /\ pc = "done"
  /\ \E b \in DOMAIN blocks :
       /\ IsConstantBranch(Terminator(fn, b))
       /\ Terminator(fn, b).args[1].val = 0
       /\ Terminator(fn, b).succs[1] # Terminator(fn, b).succs[2]
       /\ Len(blocks[b].outputs) = 2
       /\ Terminator(fn, b).succs[1] \in DOMAIN blocks
       /\ \A i \in 1..2 :
            bbs[blocks[b].outputs[i].block].succs
              = <<blocks[Terminator(fn, b).succs[2]].main>>

(* the last instruction translated is a call to an ignored intrinsic *)
IgnoredIntrinsicCall ==
  /\ AfterInstruction("call")
  /\ LastInst.attr.opc # ""
  /\ ignore_intrinsic(LastInst.attr.opc)

(* C26 as stated: translating an ignored intrinsic call emits nothing: it  *)
(* appends no statement, creates no AIR block or edge, and leaves the       *)
(* outputs and internals of the translation unchanged, for any number of    *)
(* open outputs, including when the call sits between a comparison and the  *)
(* branch that uses it.                                                     *)
C26_IgnoredIntrinsicEmitsNothing ==
  IgnoredIntrinsicCall =>
    /\ bbs = last.bbs
    /\ cur.outputs = last.bt.outputs
    /\ cur.internals = last.bt.internals
    /\ variables = last.vars

(* the blocks that are internal to the translation in progress or to the   *)
(* translation of a block already translated                                *)
InternalBlocks ==
  Range(cur.internals)
    \cup UNION {Range(blocks[b].internals) : b \in DOMAIN blocks}

(* C27: only outputs are open: once an operation (add_comparison,          *)
(* merge_outputs, unfused add_conditional_branching, add_invoke_branching)  *)
(* has moved a block into internals, no later operation of the translation  *)
(* (add_statement, further comparisons or merges, branching, the deferred   *)
(* PHI pass, link_basic_blocks) appends a statement to it, removes a        *)
(* statement from it, or adds a successor edge to it.                       *)
C27_InternalsAreClosed ==
  [][\A b \in InternalBlocks :
       /\ b \in DOMAIN bbs'
       /\ bbs'[b].stmts = bbs[b].stmts
       /\ bbs'[b].succs = bbs[b].succs
       /\ b \in InternalBlocks']_vars

(* a translated function one block of which has internal blocks left by a *)
(* comparison and a merge, after statements were appended to its output     *)
(* and the blocks were linked                                               *)
C27_Witness ==
  /\ pc = "done"
  /\ \E b \in DOMAIN blocks :
       /\ Len(blocks[b].internals) >= 3
       /\ bbs[blocks[b].outputs[1].block].stmts # <<>>
       /\ bbs[blocks[b].outputs[1].block].succs # <<>>

(* the successors of the AIR blocks *)
AirSuccessors == [b \in DOMAIN bbs |-> bbs[b].succs]

(* the variable the last branch tests *)
BranchCondition == variables[LastInst.args[1].n]

(* block b constrains the condition to value: it is the child of the       *)
(* comparison that defined the condition as value, or it holds the          *)
(* comparison of the condition with value                                   *)
Guards(b, value) ==
  \/ /\ b \in DOMAIN last.bbs
     /\ \E j \in DOMAIN last.bbs[b].stmts :
          /\ last.bbs[b].stmts[j].k = "assign"
          /\ last.bbs[b].stmts[j].res = BranchCondition
          /\ last.bbs[b].stmts[j].ops[1] = Const(value, BranchCondition.ty)
          /\ j > 1
          /\ last.bbs[b].stmts[j - 1].k = "cmp"
          /\ bbs[b].stmts[j - 1] = last.bbs[b].stmts[j - 1]
  \/ \E j \in DOMAIN bbs[b].stmts :
       IsBoolComparison(bbs[b].stmts[j], BranchCondition, value)

(* the blocks reached from main along a path no block of which constrains  *)
(* the condition to value                                                   *)
Unguarded(value) ==
  Reach(AirSuccessors, {cur.main}, {b \in DOMAIN bbs : Guards(b, value)})

(* the last instruction translated is a branch on an instruction or a      *)
(* parameter, towards two different blocks                                  *)
GuardedBranch ==
  /\ AfterInstruction("condbr")
  /\ LastInst.args[1].k \in {"inst", "arg"}
  /\ LastInst.succs[1] # LastInst.succs[2]

(* every output is reached from main only along paths that constrain the   *)
(* condition to the value its successor stands for                          *)
GuardsPreserved ==
  \A i \in DOMAIN cur.outputs :
    /\ cur.outputs[i].succ \in {LastInst.succs[1], LastInst.succs[2]}
    /\ cur.outputs[i].block
         \notin Unguarded(IF cur.outputs[i].succ = LastInst.succs[1]
                          THEN 1 ELSE 0)

(* C28 as stated: after a conditional branch on an instruction or          *)
(* parameter condition c is translated, every output whose successor is     *)
(* the true successor is reachable from main only along paths on which c    *)
(* is constrained to be true, and every output whose successor is the       *)
(* false successor only along paths constraining c to be false, also when   *)
(* the only use of the condition is the branch and the branch is not fused. *)
C28_BranchGuardsPreserved ==
  GuardedBranch => GuardsPreserved

(* s has no element twice *)
NoDuplicate(s) == \A i, j \in DOMAIN s : s[i] = s[j] => i = j

(* the landing blocks of a translation *)
InputBlocks(bt) == {bt.inputs[p] : p \in DOMAIN bt.inputs}

(* the translations built so far: the one in progress and the finished ones *)
Translations ==
  {blocks[b] : b \in DOMAIN blocks}
    \cup (IF cur.main # 0 THEN {cur} ELSE {})

(* the conditions on translation bt, the blocks of the code being B *)
WellFormedIn(B, bt) ==
  /\ bt.outputs # <<>>
  /\ NoDuplicate(OutputBlocks(bt))
  /\ NoDuplicate(bt.internals)
  /\ Range(OutputBlocks(bt)) \cap Range(bt.internals) = {}
  /\ Range(OutputBlocks(bt)) \cap InputBlocks(bt) = {}
  /\ Range(bt.internals) \cap InputBlocks(bt) = {}
  /\ (bt.main \in Range(OutputBlocks(bt))) # (bt.main \in Range(bt.internals))
  /\ bt.main \notin InputBlocks(bt)
  /\ \A b \in Range(bt.internals) : B[b].succs # <<>>

WellFormedTranslation(bt) == WellFormedIn(bbs, bt)

(* C29: after every operation on a BasicBlockTranslation, outputs is not   *)
(* empty and has no duplicate block; internals has no duplicate block;      *)
(* outputs, internals and the input landing blocks are pairwise disjoint;   *)
(* main is in exactly one of outputs or internals and is never an input     *)
(* landing block; and every block in internals has at least one successor   *)
(* edge.                                                                    *)
C29_TranslationWellFormed ==
  /\ \A bt \in Translations : WellFormedTranslation(bt)
  /\ (pc = "inst" /\ exc = "none" /\ Ok(OutputsMerged)) =>
       WellFormedIn(OutputsMerged.bbs, OutputsMerged.bt)
  /\ \A b \in DOMAIN blocks : \A p \in DOMAIN fn.blocks :
       WellFormedIn(input_basic_block(InputContext(b), p).bbs,
                    input_basic_block(InputContext(b), p).bt)

(* a finished translation with two outputs, an internal block and two      *)
(* landing blocks                                                           *)
C29_Witness ==
  /\ pc = "done"
  /\ \E b \in DOMAIN blocks :
       /\ Len(blocks[b].outputs) = 2
       /\ blocks[b].internals # <<>>
       /\ Cardinality(InputBlocks(blocks[b])) = 2
       /\ WellFormedTranslation(blocks[b])

(* the main, internal and output blocks of translation bt *)
TranslationBlocks(bt) ==
  {bt.main} \cup Range(bt.internals) \cup Range(OutputBlocks(bt))

(* the predecessors of block b in the code B *)
Predecessors(B, b) == {a \in DOMAIN B : b \in Range(B[a].succs)}

(* the predecessors of b among the blocks of translation bt *)
PredecessorsIn(bt, b) == Predecessors(bbs, b) \cap TranslationBlocks(bt)

(* b has the shape merge_outputs gives the block it creates: each of its   *)
(* predecessors is an internal block whose only edge goes to b              *)
CreatedByMerge(bt, b) ==
  /\ b # bt.main
  /\ \A a \in PredecessorsIn(bt, b) :
       a \in Range(bt.internals) /\ bbs[a].succs = <<b>>

(* the blocks of bt with several predecessors were created by              *)
(* merge_outputs, and the outputs are reachable from main                   *)
NoDiamond(bt) ==
  /\ \A b \in TranslationBlocks(bt) :
       Cardinality(PredecessorsIn(bt, b)) > 1 => CreatedByMerge(bt, b)
  /\ Range(OutputBlocks(bt)) \subseteq Reach(AirSuccessors, {bt.main}, {})

(* the blocks of bt form a tree rooted at main *)
TreeFromMain(bt) ==
  /\ PredecessorsIn(bt, bt.main) = {}
  /\ \A b \in TranslationBlocks(bt) \ {bt.main} :
       Cardinality(PredecessorsIn(bt, b)) = 1
  /\ TranslationBlocks(bt) \subseteq Reach(AirSuccessors, {bt.main}, {})

IsPredicateLike(inst) == inst.op \in {"cmp", "binop", "br", "condbr"}

(* LIR block b is made of comparisons, binary operators and a branch *)
PredicateBlock(b) ==
  \A j \in DOMAIN fn.blocks[b] : IsPredicateLike(fn.blocks[b][j])

(* the last instruction merged the outputs before it was translated *)
MergedBefore ==
  Len(last.bt.outputs) > 1 /\ ~IsPredicateLike(LastInst)

(* the last instruction added no edge into a block that existed before it, *)
(* and each block it created has one predecessor, except the block that     *)
(* merge_outputs created                                                    *)
NoEdgeIntoExistingBlock ==
  /\ \A b \in DOMAIN last.bbs :
       Predecessors(bbs, b) = Predecessors(last.bbs, b)
  /\ \A b \in DOMAIN bbs \ DOMAIN last.bbs :
       IF MergedBefore /\ b = Len(last.bbs) + 1
       THEN Predecessors(bbs, b) = Range(OutputBlocks(last.bt))
       ELSE Cardinality(Predecessors(bbs, b)) = 1

(* C30 as stated: among the main, internal and output blocks of the        *)
(* translation of one LIR block, the only blocks that ever have more than   *)
(* one predecessor are blocks created by merge_outputs, and for a block     *)
(* made only of comparisons, binary operators and a branch the AIR blocks   *)
(* form a tree rooted at main.                                              *)
C30_NoDiamondEver ==
  \A bt \in Translations :
    /\ NoDiamond(bt)
    /\ (bt.source \in DOMAIN blocks /\ PredicateBlock(bt.source)) =>
         TreeFromMain(bt)

(* C30: until link_basic_blocks adds the edges between the translations,   *)
(* the only blocks among the main, internal and output blocks of one        *)
(* translation that have more than one predecessor are blocks created by    *)
(* merge_outputs; translating a comparison, a binary operator or a branch   *)
(* never adds an edge into an already existing block; and for a block made  *)
(* only of comparisons, binary operators and a branch the blocks form a     *)
(* tree rooted at main in which every other block has exactly one           *)
(* predecessor and every output is reachable from main.                     *)
C30_NoDiamondFromPredicates ==
  /\ (last.b # 0 /\ exc = "none") => NoEdgeIntoExistingBlock
  /\ pc \in {"blocks", "inst", "phis"} =>
       \A bt \in Translations :
         /\ NoDiamond(bt)
         /\ (bt.source \in DOMAIN blocks /\ PredicateBlock(bt.source)) =>
              TreeFromMain(bt)
         /\ (bt = cur /\ exc = "none"
               /\ \A j \in 1..(idx - 1) :
                    IsPredicateLike(fn.blocks[cur.source][j])) =>
              TreeFromMain(bt)

(* a block of two comparisons and a branch, translated: a tree of seven    *)
(* blocks with four outputs                                                 *)
C30_Witness ==
  /\ pc = "phis"
  /\ \E b \in DOMAIN blocks :
       /\ PredicateBlock(b)
       /\ Len(fn.blocks[b]) = 3
       /\ Len(blocks[b].outputs) = 4
       /\ Cardinality(TranslationBlocks(blocks[b])) = 7
       /\ TreeFromMain(blocks[b])

====
